---- MODULE Spec2Model ----
(***************************************************************************)
(* Model of src/src/assets/game-of-life.js: the start / stop / setMode     *)
(* lifecycle of the background automaton, its readiness wait, its frame    *)
(* callbacks and the GPU resources of the simulators it constructs.        *)
(***************************************************************************)
EXTENDS Integers, Sequences, FiniteSets, TLC

\* ------------------------------------------------------------- bounds
\* Largest value the generation token may reach (guards of the control calls).
MaxToken == 3

\* Largest number of failing calls (a release call that throws during a
\* dispose, a createSimulation that throws) injected in one behaviour.
MaxFaults == 1

Tokens == 1..MaxToken

\* ---------------------------------------------------------- constants
\* const MODES = ['life', 'ant'];
MODES == {"life", "ant"}

\* Arguments a caller may pass as `mode`: the two modes, an unknown string and
\* no argument at all (undefined).
ModeArgs == {"life", "ant", "bogus", "absent"}

\* The release calls of disposeResources, in the order it makes them.
programs == <<"simProgram", "drawProgram">>
framebuffers == <<"texA", "fbA", "texB", "fbB">>
buffers == <<"positionBuffer", "indexBuffer">>

\* The calls of createLifeSimulation and createAntSimulation in their order,
\* each with the resources it creates: the two createProgramInfo, the quad,
\* the two createFramebufferInfo, and the rest of the setup (texture upload,
\* warm-up, gl.disable), which creates nothing.
SetupCalls ==
    <<{"simProgram"}, {"drawProgram"}, {"positionBuffer", "indexBuffer"},
      {"texA", "fbA"}, {"texB", "fbB"}, {}>>

\* What the first i calls of the setup have created.
CreatedBy(i) == UNION {SetupCalls[j] : j \in 1..i}

Range(s) == {s[i] : i \in 1..Len(s)}

AllResources == CreatedBy(Len(SetupCalls))

\* Where a release call may throw during one dispose: nowhere, or at the i-th
\* call of one category.
ThrowPoints ==
    {[cat |-> "none", at |-> 0]}
      \cup {[cat |-> "programs", at |-> i] : i \in 1..Len(programs)}
      \cup {[cat |-> "framebuffers", at |-> i] : i \in 1..Len(framebuffers)}
      \cup {[cat |-> "buffers", at |-> i] : i \in 1..Len(buffers)}

NoThrow == [cat |-> "none", at |-> 0]

\* The outcomes of createSimulation: 0 when it returns a simulator, i when
\* the i-th call of the setup throws.
Built == 0

CreateOutcomes == {Built} \cup (1..Len(SetupCalls))

NoSim == [variant |-> "none", state |-> "none", live |-> {}]

VARIABLES
    running,      \* let running
    rafId,        \* let rafId: 0, or the token of the closure whose frame
                  \* callback was scheduled last
    cleanupFn,    \* let cleanupFn: 0 (null), or the token of the start() whose
                  \* continuation installed the closure
    currentMode,  \* let currentMode
    startToken,   \* let startToken
    waits,        \* tokens of the start() calls whose waitForStyles promise is
                  \* still polling (one checkStyles frame callback each)
    frames,       \* tokens of the render closures with a pending frame callback
    display,      \* canvas.style.display
    dataSim,      \* documentElement data-sim
    dataSimMode,  \* documentElement data-sim-mode
    stylesReady,  \* environment: the --bg custom property is computed
    glSupport,    \* environment: canvas.getContext('webgl2') returns a context
    sims,         \* token -> the simulator its continuation constructed, with
                  \* the GPU resources of it that are still allocated
    stepped,      \* tokens of the simulators whose step() has been called
    req,          \* history: the pairs <<token, mode selected when start()
                  \* took the token>>, <<token, "stop">> for a token taken
                  \* by stop()
    superseded,   \* history: tokens whose wait was pending when a later
                  \* start() or stop() took a new token
    stoppedWaits, \* history: tokens whose wait was pending when a stop()
                  \* returned
    faults        \* history: the number of failing calls injected so far

\* The data the simulators and the pattern library work on.  The lifecycle
\* treats a simulator as a black box, so these variables rest while the
\* lifecycle runs, and each group has a specification of its own further down.
VARIABLES
    lifeN,        \* createLifeSimulation(gl, n): the side of the grid
    lifeGrid,     \* the R channel of fboA, the current Life surface
    lifeHist,     \* history: the surfaces of the last two steps, latest last
    antN,         \* createAntSimulation(gl, n): the side of the grid
    antGrid,      \* the texels of fboA, the current Ant surface
    antHist,      \* history: the surface before the last step
    rleText,      \* the argument of parseLifeRle: the lines of an RLE text
    rleOut,       \* history: the value parseLifeRle returned, once called
    xfPattern,    \* the pattern transformLifePattern is given next
    xfTrail,      \* history: the last two calls of transformLifePattern
                  \* (argument pattern, rotation, mirror), latest last
    seedN,        \* new SeedWriter(n): the side of the seed buffer
    seedData,     \* seedWriter.data: channel 0 of every cell
    seedI,        \* seedLifeBoard: i, the index of the library pattern
    seedTodo,     \* seedLifeBoard: count - placed
    seedStamps,   \* history: one record for each stampPattern call
    drawN,        \* u_gridSize of the draw pass
    drawCanvas,   \* u_canvasSize: <<width, height>> of the last draw pass
    drawImage,    \* what the last draw pass did at each canvas pixel
    simKind,      \* the mode createSimulation built: "life" or "ant"
    simClosure,   \* the closure variables of the simulator: fboA, fboB (each
                  \* naming one of the two surfaces) and lastStep
    simPhase,     \* "seeded" after initPingPongTargets, "built" when the
                  \* constructor returned, "stepped" after a step() call,
                  \* "disposed" after dispose()
    simWarmup,    \* runLifeWarmup: iterations - i, the passes still to run
    simNow,       \* the time of the last step() call, in ms
    simFrames,    \* history: the number of step() calls made
    simLive,      \* the surfaces whose texture or framebuffer is allocated
    simPasses,    \* history: the simulation passes of the last call, each
                  \* with the surface read, the surface written and lastStep
                  \* before and after
    simLatest,    \* history: the surface written last
    simDrawn,     \* history: the surface the last draw pass read, 0 if none
    simMarks,     \* history: the times of the first frame and of the Life
                  \* advances, the last two of them
    simFirst,     \* history: the time of the first step() call, 0 before it
    simTicks,     \* history: the simulation passes all step() calls have run
    offCalls,     \* history: the last chooseOffset call, its arguments and
                  \* the offset it returned
    spawnN,       \* createAntSimulation(gl, n): the side of the seed buffer
    spawnData,    \* seedWriter.data: channels 0, 1 and 2 of every cell
    spawnBounds,  \* spawnAnts: bounds, the visible region
    spawnCount,   \* spawnAnts: antCount
    spawnI,       \* spawnAnts: i, the agents handled so far
    spawnUsed     \* spawnAnts: used, the cells agents were spawned at

lifecycleVars ==
    <<running, rafId, cleanupFn, currentMode, startToken, waits, frames,
      display, dataSim, dataSimMode, stylesReady, glSupport, sims, stepped,
      req, superseded, stoppedWaits, faults>>

lifeVars == <<lifeN, lifeGrid, lifeHist>>
antVars == <<antN, antGrid, antHist>>
rleVars == <<rleText, rleOut>>
xfVars == <<xfPattern, xfTrail>>
seedVars == <<seedN, seedData, seedI, seedTodo, seedStamps>>
drawVars == <<drawN, drawCanvas, drawImage>>
simVars ==
    <<simKind, simClosure, simPhase, simWarmup, simNow, simFrames, simLive,
      simPasses, simLatest, simDrawn, simMarks, simFirst, simTicks>>
offVars == <<offCalls>>
spawnVars == <<spawnN, spawnData, spawnBounds, spawnCount, spawnI, spawnUsed>>

vars ==
    <<lifecycleVars, lifeVars, antVars, rleVars, xfVars, seedVars, drawVars, simVars, offVars, spawnVars>>

\* The groups at rest.
LifeIdle == lifeN = 0 /\ lifeGrid = <<>> /\ lifeHist = <<>>
AntIdle == antN = 0 /\ antGrid = <<>> /\ antHist = <<>>
RleIdle == rleText = <<>> /\ rleOut = <<>>
XfIdle == xfPattern = <<>> /\ xfTrail = <<>>
SeedIdle ==
    seedN = 0 /\ seedData = <<>> /\ seedI = 0 /\ seedTodo = 0 /\ seedStamps = {}
DrawIdle == drawN = 0 /\ drawCanvas = <<>> /\ drawImage = <<>>
SimIdle ==
    /\ simKind = "" /\ simClosure = <<>> /\ simPhase = "" /\ simNow = 0 /\ simLive = {}
    /\ simPasses = <<>> /\ simLatest = 0 /\ simDrawn = 0 /\ simMarks = <<>>
    /\ simWarmup = 0 /\ simFrames = 0 /\ simFirst = 0 /\ simTicks = 0

OffIdle == offCalls = <<>>

SpawnIdle ==
    /\ spawnN = 0 /\ spawnData = <<>> /\ spawnBounds = <<>> /\ spawnCount = 0
    /\ spawnI = 0 /\ spawnUsed = {}

\* The lifecycle state as one value, so that calls compose.
State ==
    [running |-> running, rafId |-> rafId, cleanupFn |-> cleanupFn,
     currentMode |-> currentMode, startToken |-> startToken, waits |-> waits,
     frames |-> frames, display |-> display, dataSim |-> dataSim,
     dataSimMode |-> dataSimMode, sims |-> sims, stepped |-> stepped,
     req |-> req, superseded |-> superseded, stoppedWaits |-> stoppedWaits,
     faults |-> faults]

Set(s) ==
    /\ running' = s.running
    /\ rafId' = s.rafId
    /\ cleanupFn' = s.cleanupFn
    /\ currentMode' = s.currentMode
    /\ startToken' = s.startToken
    /\ waits' = s.waits
    /\ frames' = s.frames
    /\ display' = s.display
    /\ dataSim' = s.dataSim
    /\ dataSimMode' = s.dataSimMode
    /\ sims' = s.sims
    /\ stepped' = s.stepped
    /\ req' = s.req
    /\ superseded' = s.superseded
    /\ stoppedWaits' = s.stoppedWaits
    /\ faults' = s.faults
    /\ s.faults <= MaxFaults
    /\ UNCHANGED <<lifeVars, antVars, rleVars, xfVars, seedVars, drawVars, simVars, offVars, spawnVars>>

\* ------------------------------------------------------------ disposal
\* The resources one category's forEach releases: all of them, or those before
\* the call that throws (the catch around the forEach ends the category).
Released(cat, seq, th) ==
    IF th.cat = cat THEN {seq[i] : i \in 1..(th.at - 1)} ELSE Range(seq)

\* disposeResources: what is still allocated of `live` afterwards.
disposeResources(live, th) ==
    live \ (Released("programs", programs, th)
              \cup Released("framebuffers", framebuffers, th)
              \cup Released("buffers", buffers, th))

\* sim.dispose() of the simulator record `sim`.
dispose(sim, th) ==
    [sim EXCEPT !.state = "disposed", !.live = disposeResources(sim.live, th)]

\* A cleanup closure that cancels the frame and hides the surface and never
\* disposes its simulator.
cleanupWithoutDispose(s, th) ==
    [s EXCEPT !.frames = IF s.rafId # 0 THEN @ \ {s.rafId} ELSE @,
              !.rafId = 0,
              !.display = "none"]

\* A call of the closure held in cleanupFn (the caller clears the variable).
callCleanup(s, th) ==
    [s EXCEPT !.frames = IF s.rafId # 0 THEN @ \ {s.rafId} ELSE @,
              !.rafId = 0,
              !.sims[s.cleanupFn] = dispose(@, th),
              !.display = "none",
              !.faults = IF th = NoThrow THEN @ ELSE @ + 1]

\* if (cleanupFn) { cleanupFn(); cleanupFn = null; }
runCleanup(s, th) ==
    IF s.cleanupFn # 0 THEN [callCleanup(s, th) EXCEPT !.cleanupFn = 0] ELSE s

\* ------------------------------------------------------- control calls
\* A check that takes any argument that is given for a mode.
anyGivenMode(mode) == mode # "absent"

\* mode && MODES.includes(mode)
validMode(mode) == mode \in MODES

start(s, mode, th) ==
    LET m == IF validMode(mode) THEN mode ELSE s.currentMode
        s1 == runCleanup([s EXCEPT !.currentMode = m], th)
        token == s.startToken + 1
    IN  [s1 EXCEPT !.startToken = token,
                   !.running = TRUE,
                   !.dataSim = "on",
                   !.dataSimMode = m,
                   !.display = "block",
                   !.waits = @ \cup {token},
                   !.req = @ \cup {<<token, m>>},
                   !.superseded = @ \cup s.waits]

\* A stop() without the early return of an already stopped lifecycle.
stopWithoutEarlyReturn(s, th) ==
    LET s1 == [s EXCEPT !.running = FALSE,
                        !.startToken = @ + 1,
                        !.req = @ \cup {<<s.startToken + 1, "stop">>},
                        !.superseded = @ \cup s.waits,
                        !.stoppedWaits = @ \cup s.waits]
        s2 == runCleanup(s1, th)
    IN  [s2 EXCEPT !.dataSim = "off",
                   !.dataSimMode = s2.currentMode,
                   !.display = "none"]

stop(s, th) ==
    IF ~s.running /\ s.cleanupFn = 0
    THEN [s EXCEPT !.dataSim = "off", !.stoppedWaits = @ \cup s.waits]
    ELSE LET s1 == [s EXCEPT !.running = FALSE,
                             !.startToken = @ + 1,
                             !.req = @ \cup {<<s.startToken + 1, "stop">>},
                             !.superseded = @ \cup s.waits,
                             !.stoppedWaits = @ \cup s.waits]
             s2 == runCleanup(s1, th)
         IN  [s2 EXCEPT !.dataSim = "off",
                        !.dataSimMode = s2.currentMode,
                        !.display = "none"]

\* A setMode() that remembers the mode and never restarts.
setModeOnlyRemembers(s, mode, th) ==
    IF ~validMode(mode) \/ mode = s.currentMode
    THEN s
    ELSE [s EXCEPT !.currentMode = mode, !.dataSimMode = mode]

\* A setMode() that restarts whether or not the lifecycle was running.
setModeAlwaysStarts(s, mode, th) ==
    IF ~validMode(mode) \/ mode = s.currentMode
    THEN s
    ELSE start([s EXCEPT !.currentMode = mode, !.dataSimMode = mode], mode, th)

setMode(s, mode, th) ==
    IF ~validMode(mode) \/ mode = s.currentMode
    THEN s
    ELSE LET s1 == [s EXCEPT !.currentMode = mode, !.dataSimMode = mode]
         IN  IF s.running THEN start(s1, mode, th) ELSE s1

getMode == currentMode

isRunning == running

\* ------------------------------------------------- asynchronous steps
\* createSimulation(gl, mode, size) with outcome `failAt`: a simulator, or a
\* throw that leaves allocated what the calls before it created.
createSimulation(mode, failAt) ==
    [variant |-> IF mode = "ant" THEN "ant" ELSE "life",
     state |-> IF failAt = Built THEN "active" ELSE "failed",
     live |-> IF failAt = Built THEN AllResources ELSE CreatedBy(failAt - 1)]

\* A guard that forgets the token and looks at the running flag alone.
staleByFlagOnly(s, token) == ~s.running

\* token !== startToken || !running
stale(s, token) == token # s.startToken \/ ~s.running

\* A no-context branch that clears the flag and leaves the surface shown.
noContextLeavesShown(s) == [s EXCEPT !.running = FALSE]

\* if (!gl) { running = false; data-sim off; display none; return; }
noContext(s) ==
    [s EXCEPT !.running = FALSE, !.dataSim = "off", !.display = "none"]

\* A catch branch that hides the surface and leaves the running flag set.
setupFailedKeepsFlag(s) == [s EXCEPT !.dataSim = "off", !.display = "none"]

\* catch (e) { running = false; data-sim off; display none; return; }
setupFailed(s) ==
    [s EXCEPT !.running = FALSE, !.dataSim = "off", !.display = "none"]

\* A continuation that leaves the flag set when there is no context.
continuationKeepsFlag(s, token, gl, failAt) ==
    LET s0 == [s EXCEPT !.waits = @ \ {token}]
    IN  IF stale(s, token) THEN s0
        ELSE IF ~gl THEN [s0 EXCEPT !.dataSim = "off", !.display = "none"]
        ELSE IF failAt # Built
             THEN [setupFailed(s0) EXCEPT
                       !.sims[token] = createSimulation(s.currentMode, failAt),
                       !.faults = @ + 1]
             ELSE [s0 EXCEPT !.sims[token] = createSimulation(s.currentMode, failAt),
                             !.frames = @ \cup {token},
                             !.rafId = token,
                             !.cleanupFn = token]

\* The function passed to waitForStyles().then by the start() that took `token`.
continuation(s, token, gl, failAt) ==
    LET s0 == [s EXCEPT !.waits = @ \ {token}]
    IN  IF stale(s, token) THEN s0
        ELSE IF ~gl THEN noContext(s0)
        ELSE IF failAt # Built
             THEN [setupFailed(s0) EXCEPT
                       !.sims[token] = createSimulation(s.currentMode, failAt),
                       !.faults = @ + 1]
             ELSE [s0 EXCEPT !.sims[token] = createSimulation(s.currentMode, failAt),
                             !.frames = @ \cup {token},
                             !.rafId = token,
                             !.cleanupFn = token]

\* render(time) of the closure made by the start() that took `token`.
render(s, token) ==
    LET s0 == [s EXCEPT !.frames = @ \ {token}]
    IN  IF stale(s, token) THEN s0
        ELSE [s0 EXCEPT !.stepped = @ \cup {token},
                        !.frames = @ \cup {token},
                        !.rafId = token]

\* -------------------------------------------------------------- actions
\* The state before the module's own start() call (lines 8-12).
Boot ==
    [running |-> FALSE, rafId |-> 0, cleanupFn |-> 0, currentMode |-> "life",
     startToken |-> 0, waits |-> {}, frames |-> {}, display |-> "unset",
     dataSim |-> "unset", dataSimMode |-> "unset",
     sims |-> [t \in Tokens |-> NoSim], stepped |-> {}, req |-> {},
     superseded |-> {}, stoppedWaits |-> {}, faults |-> 0]

\* The lifecycle at rest, as the module leaves it before its start() call.
LifecycleIdle ==
    /\ stylesReady = FALSE
    /\ glSupport = FALSE
    /\ running = Boot.running
    /\ rafId = Boot.rafId
    /\ cleanupFn = Boot.cleanupFn
    /\ currentMode = Boot.currentMode
    /\ startToken = Boot.startToken
    /\ waits = Boot.waits
    /\ frames = Boot.frames
    /\ display = Boot.display
    /\ dataSim = Boot.dataSim
    /\ dataSimMode = Boot.dataSimMode
    /\ sims = Boot.sims
    /\ stepped = Boot.stepped
    /\ req = Boot.req
    /\ superseded = Boot.superseded
    /\ stoppedWaits = Boot.stoppedWaits
    /\ faults = Boot.faults

\* The module calls start() once when it is loaded (line 1021).
Init ==
    /\ stylesReady \in BOOLEAN
    /\ glSupport \in BOOLEAN
    /\ LET s == start(Boot, "absent", NoThrow)
       IN  /\ running = s.running
           /\ rafId = s.rafId
           /\ cleanupFn = s.cleanupFn
           /\ currentMode = s.currentMode
           /\ startToken = s.startToken
           /\ waits = s.waits
           /\ frames = s.frames
           /\ display = s.display
           /\ dataSim = s.dataSim
           /\ dataSimMode = s.dataSimMode
           /\ sims = s.sims
           /\ stepped = s.stepped
           /\ req = s.req
           /\ superseded = s.superseded
           /\ stoppedWaits = s.stoppedWaits
           /\ faults = s.faults
    /\ LifeIdle /\ AntIdle /\ RleIdle /\ XfIdle /\ SeedIdle /\ DrawIdle /\ SimIdle /\ OffIdle /\ SpawnIdle

\* The outcomes the release calls of a cleanup can have: the calls are made
\* only when a cleanup closure is installed.
CleanupThrows == IF cleanupFn # 0 THEN ThrowPoints ELSE {NoThrow}

\* The outcomes createSimulation can have in the continuation of `token`: it
\* is called only by a continuation that is not stale and has a context.
SetupOutcomes(token) ==
    IF stale(State, token) \/ ~glSupport THEN {Built} ELSE CreateOutcomes

Start(mode) ==
    /\ startToken < MaxToken
    /\ \E th \in CleanupThrows : Set(start(State, mode, th))
    /\ UNCHANGED <<stylesReady, glSupport>>

Stop ==
    /\ (running \/ cleanupFn # 0) => startToken < MaxToken
    /\ \E th \in CleanupThrows : Set(stop(State, th))
    /\ UNCHANGED <<stylesReady, glSupport>>

SetMode(mode) ==
    /\ (validMode(mode) /\ mode # currentMode /\ running) => startToken < MaxToken
    /\ \E th \in CleanupThrows : Set(setMode(State, mode, th))
    /\ UNCHANGED <<stylesReady, glSupport>>

\* A checkStyles that asks for another frame whatever it finds.
CheckStylesPollsForever(token) ==
    /\ token \in waits
    /\ Set(State)
    /\ UNCHANGED <<stylesReady, glSupport>>

\* One checkStyles frame callback of the wait of `token`: it resolves the
\* promise, whose continuation runs before any other callback, or polls again.
CheckStyles(token) ==
    /\ token \in waits
    /\ IF stylesReady
       THEN \E failAt \in SetupOutcomes(token) :
                Set(continuation(State, token, glSupport, failAt))
       ELSE Set(State)
    /\ UNCHANGED <<stylesReady, glSupport>>

\* One frame callback of the render closure of `token`.
Render(token) ==
    /\ token \in frames
    /\ Set(render(State, token))
    /\ UNCHANGED <<stylesReady, glSupport>>

\* The environment finishes computing the theme styles.
StylesComputed ==
    /\ ~stylesReady
    /\ stylesReady' = TRUE
    /\ UNCHANGED <<running, rafId, cleanupFn, currentMode, startToken, waits,
                   frames, display, dataSim, dataSimMode, glSupport, sims,
                   stepped, req, superseded, stoppedWaits, faults>>
    /\ UNCHANGED <<lifeVars, antVars, rleVars, xfVars, seedVars, drawVars, simVars, offVars, spawnVars>>

Next ==
    \/ \E mode \in ModeArgs : Start(mode)
    \/ Stop
    \/ \E mode \in ModeArgs : SetMode(mode)
    \/ \E token \in Tokens : CheckStyles(token)
    \/ \E token \in Tokens : Render(token)
    \/ StylesComputed

Spec == Init /\ [][Next]_vars

\* ------------------------------------------------------ lifecycle states
Stopped == ~running /\ cleanupFn = 0
Starting == startToken \in waits
Running == cleanupFn # 0

ActiveSims == {t \in Tokens : sims[t].state = "active"}
Constructed == {t \in Tokens : sims[t] # NoSim}

\* The program's own part of a state: the module variables, the host's
\* attributes, the pending callbacks and the simulators, without the history.
Program(s) ==
    [running |-> s.running, rafId |-> s.rafId, cleanupFn |-> s.cleanupFn,
     currentMode |-> s.currentMode, startToken |-> s.startToken,
     waits |-> s.waits, frames |-> s.frames, display |-> s.display,
     dataSim |-> s.dataSim, dataSimMode |-> s.dataSimMode, sims |-> s.sims]

\* At no time are two simulators active, and the active one belongs to the
\* closure held in cleanupFn.
SingleActiveSimulator ==
    ActiveSims = IF cleanupFn # 0 THEN {cleanupFn} ELSE {}

\* --------------------------------------------------------------- claims
\* C1: when start("life") is followed by start("ant") before the readiness
\* wait of the first call has resolved, nothing is ever constructed for the
\* first call (no simulator, no resource), and once the wait of the second
\* call has resolved with a context and a successful setup, the one active
\* simulator is the ant simulator of the second call.
C1_OverlappingStarts ==
    \A t \in superseded :
        (<<t, "life">> \in req /\ <<t + 1, "ant">> \in req) =>
            /\ sims[t] = NoSim
            /\ t \notin stepped
            /\ (/\ startToken = t + 1
                /\ t + 1 \notin waits
                /\ glSupport
                /\ sims[t + 1].state # "failed") =>
                   /\ ActiveSims = {t + 1}
                   /\ sims[t + 1].variant = "ant"
                   /\ sims[t + 1].live = AllResources
                   /\ cleanupFn = t + 1

\* C1 witness: start() then start("ant") from the load of the module, both
\* waits resolved, and the only thing ever constructed is the ant simulator.
C1_Witness ==
    /\ 1 \in superseded
    /\ <<1, "life">> \in req
    /\ <<2, "ant">> \in req
    /\ startToken = 2
    /\ waits = {}
    /\ Constructed = {2}
    /\ sims[2].state = "active"
    /\ sims[2].variant = "ant"

\* C2: whenever a simulator is active, every other simulator that was
\* constructed has been disposed and has none of its programs,
\* framebuffers, textures and buffers still allocated.
C2_EarlierSimulatorsReleased ==
    \A t \in Tokens : \A u \in Tokens \ {t} :
        (sims[t].state = "active" /\ sims[u].state \in {"active", "disposed"}) =>
            (sims[u].state = "disposed" /\ sims[u].live = {})

\* C3: a continuation whose token is not the current token does nothing but
\* end: the flag, the mode, the visibility, the cleanup handler, the frame
\* callbacks and the simulators are as before.
C3_StaleContinuationDoesNothing ==
    [][\A t \in waits :
          (t \notin waits' /\ t # startToken) =>
              UNCHANGED <<running, rafId, cleanupFn, currentMode, startToken,
                          frames, display, dataSim, dataSimMode, sims,
                          stepped>>]_vars

\* C3 witness: the wait of a start() that was superseded has resolved.
C3_Witness ==
    \E t \in superseded : t \notin waits /\ t # startToken /\ running

\* C4: a step of stop() ends with the flag false, no cleanup handler, no
\* active simulator, no frame callback and the surface hidden, the simulator
\* that was active is disposed in that step, and nothing is ever constructed
\* for a wait that was pending when a stop() returned.
C4_StopLeavesStopped ==
    [][/\ Stop =>
            /\ ~running'
            /\ cleanupFn' = 0
            /\ display' = "none"
            /\ dataSim' = "off"
            /\ frames' = {}
            /\ \A t \in Tokens : sims'[t].state # "active"
            /\ cleanupFn # 0 => sims'[cleanupFn].state = "disposed"
            /\ \A t \in waits' : t # startToken'
       /\ \A t \in stoppedWaits' : sims'[t] = NoSim /\ t \notin stepped'
      ]_vars

\* C4 witness: a wait that was pending at a stop() has resolved after a later
\* start() set the flag again, and nothing was constructed for it.
C4_Witness ==
    \E t \in stoppedWaits : t \notin waits /\ running /\ glSupport

\* C5: stop() on a stopped lifecycle changes nothing, and a second stop()
\* right after a stop() changes nothing either.
C5_StopIdempotent ==
    \A th \in CleanupThrows :
        /\ Stopped => Program(stop(State, th)) = Program(State)
        /\ Program(stop(stop(State, th), NoThrow)) = Program(stop(State, th))

\* C5 witness: a lifecycle stopped by stop(), with a wait still pending.
C5_Witness ==
    /\ Stopped
    /\ <<startToken, "stop">> \in req
    /\ waits # {}

\* What a caller can observe of a lifecycle state: the flag, the selected
\* mode, the active simulator, whether a start is pending, every simulator
\* with what is left of it, the frame callbacks and the host's attributes.
\* The value of the token is not observable.
Observable(s) ==
    [running |-> s.running, currentMode |-> s.currentMode,
     active |-> s.cleanupFn, pending |-> s.startToken \in s.waits,
     sims |-> s.sims, frames |-> s.frames, rafId |-> s.rafId,
     display |-> s.display, dataSim |-> s.dataSim,
     dataSimMode |-> s.dataSimMode]

\* The token the next start() takes is one the model has a simulator slot for.
CanStart == startToken < MaxToken

\* C6 as stated: for every valid mode, setMode(m) while running leaves the
\* observable state that stop() then start(m) leaves.
C6_SetModeIsStopStart ==
    running =>
        \A m \in MODES : \A th \in CleanupThrows :
            Observable(setMode(State, m, th))
                = Observable(start(stop(State, th), m, NoThrow))

\* C6 amended: for every valid mode other than the selected one, setMode(m)
\* while running leaves the observable state that stop() then start(m)
\* leaves; setMode of the selected mode changes nothing.
C6_SetModeOtherIsStopStart ==
    running =>
        \A m \in MODES : \A th \in CleanupThrows :
            IF m = currentMode
            THEN setMode(State, m, th) = State
            ELSE Observable(setMode(State, m, th))
                     = Observable(start(stop(State, th), m, NoThrow))

\* C6 witness: a running simulator was disposed by a switch to the other
\* mode and the start of the other mode is pending.
C6_Witness ==
    \E t \in Tokens :
        /\ sims[t].state = "disposed"
        /\ startToken = t + 1
        /\ Starting
        /\ running
        /\ currentMode # sims[t].variant
        /\ <<t + 1, currentMode>> \in req

\* C7: setMode(m) with a valid mode on a stopped lifecycle changes the
\* remembered mode (and the attribute that shows it) and nothing else, and
\* a start() without argument after it constructs a simulator of variant m.
C7_SetModeWhileStopped ==
    Stopped =>
        \A m \in MODES : \A th \in CleanupThrows :
            LET s1 == setMode(State, m, th)
                s2 == start(s1, "absent", NoThrow)
                s3 == continuation(s2, s2.startToken, TRUE, Built)
            IN  /\ s1 = [State EXCEPT !.currentMode = m, !.dataSimMode = m]
                /\ ~s1.running /\ s1.waits = waits /\ s1.sims = sims
                /\ s1.display = "none"
                /\ CanStart =>
                       /\ s3.sims[s2.startToken].state = "active"
                       /\ s3.sims[s2.startToken].variant = m
                       /\ s3.cleanupFn = s2.startToken

\* C7 witness: a stopped lifecycle whose selected mode is one no start() has
\* ever taken, so it was selected by setMode while stopped.
C7_Witness ==
    /\ Stopped
    /\ display = "none"
    /\ currentMode = "ant"
    /\ \A t \in Tokens : <<t, "ant">> \notin req

\* C8 as stated: isRunning() is true exactly when a simulator has been
\* constructed and is active.
C8_RunningIffSimulator == isRunning <=> Running

\* C8 amended: isRunning() is true exactly when the lifecycle is Starting
\* (the wait of the latest start() is pending) or Running (a simulator is
\* active), and false when it is Stopped.
C8_RunningIffStartingOrRunning ==
    /\ isRunning <=> (Starting \/ Running)
    /\ Stopped <=> ~isRunning
    /\ ~(Starting /\ Running)

\* C8 witness: isRunning() is true while the readiness wait is pending and
\* no simulator exists.
C8_Witness == isRunning /\ Starting /\ ~stylesReady /\ Constructed = {}

\* C9: getMode() is "life" at the first start(), a call passing a valid mode
\* makes it that mode, and a call with an absent or invalid mode, a stop(),
\* a continuation and a frame leave it as it is.
C9_GetModeIsLastValidMode ==
    /\ <<1, "life">> \in req
    /\ getMode \in MODES
    /\ \A a \in ModeArgs : \A th \in CleanupThrows :
          LET expected == IF a \in MODES THEN a ELSE getMode
          IN  /\ start(State, a, th).currentMode = expected
              /\ setMode(State, a, th).currentMode = expected
    /\ \A th \in CleanupThrows : stop(State, th).currentMode = getMode
    /\ \A t \in waits : \A failAt \in SetupOutcomes(t) :
          continuation(State, t, glSupport, failAt).currentMode = getMode
    /\ \A t \in frames : render(State, t).currentMode = getMode

\* C9 witness: the selected mode is no longer the initial one.
C9_Witness == getMode = "ant" /\ startToken > 1

\* C10 as stated: with a surface that provides no context the lifecycle is
\* stopped and the surface hidden at every moment.
C10_NoContextAlwaysHidden ==
    ~glSupport => (~running /\ display = "none")

\* C10 amended: with a surface that provides no context nothing is ever
\* constructed or scheduled, and once the wait of the latest start() has
\* resolved the lifecycle is stopped with the surface hidden; until then
\* the flag is set and the surface is shown.
C10_NoContextEndsStopped ==
    ~glSupport =>
        /\ Constructed = {}
        /\ cleanupFn = 0 /\ frames = {} /\ rafId = 0
        /\ ~Starting => (~running /\ display = "none" /\ dataSim = "off")
        /\ Starting => (running /\ display = "block" /\ dataSim = "on")

\* C10 witness: the wait of a start() has resolved on a surface without a
\* context, and the lifecycle is stopped and hidden.
C10_Witness ==
    /\ ~glSupport
    /\ startToken \notin waits
    /\ \E m \in MODES : <<startToken, m>> \in req
    /\ ~running
    /\ display = "none"

\* C11: when createSimulation throws in the continuation of start(), the catch
\* at the start() boundary takes the lifecycle to Stopped: the running flag is
\* cleared, the surface is hidden and the host attribute is off, no render
\* frame callback is scheduled and no cleanup closure is registered.
C11_ConstructionFailureEndsStopped ==
    stylesReady =>
        \A t \in waits : \A failAt \in SetupOutcomes(t) \ {Built} :
            LET s == continuation(State, t, glSupport, failAt)
            IN  /\ ~s.running
                /\ s.display = "none"
                /\ s.dataSim = "off"
                /\ s.frames = {}
                /\ s.rafId = rafId
                /\ s.cleanupFn = 0
                /\ s.sims[t].state = "failed"

\* A start() whose construction threw has ended Stopped and hidden.
C11_Witness ==
    /\ sims[startToken].state = "failed"
    /\ Stopped
    /\ ~isRunning
    /\ display = "none"
    /\ frames = {}

\* C12: the visibility toggle follows the lifecycle: while the running flag is
\* false the surface is hidden and the host attribute is off, and while a
\* simulator is active the surface is shown and the attribute is on.
C12_VisibilityFollowsLifecycle ==
    /\ ~running => display = "none" /\ dataSim = "off"
    /\ ActiveSims # {} => display = "block" /\ dataSim = "on"

\* Both cases occur: a stopped, hidden lifecycle after a simulator ran, and a
\* shown surface with an active simulator.
C12_Witness ==
    /\ ActiveSims # {}
    /\ running
    /\ display = "block"
    /\ dataSim = "on"
    /\ \E t \in Tokens : sims[t].state = "disposed"

\* C28, as claimed: every start(), every stop() and every mode switch through
\* setMode() strictly increases the token.
C28_EveryCallIncreasesToken ==
    \A th \in CleanupThrows :
        /\ \A mode \in ModeArgs : start(State, mode, th).startToken > startToken
        /\ stop(State, th).startToken > startToken
        /\ \A mode \in MODES \ {currentMode} :
               setMode(State, mode, th).startToken > startToken

\* C28, amended: every start() strictly increases the token; stop() does when
\* the lifecycle is running or a cleanup closure is installed, and a mode
\* switch through setMode() does when the lifecycle is running; the other
\* stop() and setMode() calls leave the token as it is, as do the frame
\* callbacks, so the token never decreases.
C28_TokenIncreasesWhenRunning ==
    /\ \A th \in CleanupThrows :
        /\ \A mode \in ModeArgs : start(State, mode, th).startToken > startToken
        /\ IF running \/ cleanupFn # 0
           THEN stop(State, th).startToken > startToken
           ELSE stop(State, th).startToken = startToken
        /\ \A mode \in ModeArgs :
               IF validMode(mode) /\ mode # currentMode /\ running
               THEN setMode(State, mode, th).startToken > startToken
               ELSE setMode(State, mode, th).startToken = startToken
    /\ \A t \in waits : \A failAt \in SetupOutcomes(t) :
           continuation(State, t, glSupport, failAt).startToken = startToken
    /\ \A t \in frames : render(State, t).startToken = startToken

\* start() took token 1, a stop() token 2 and a start of the other mode while
\* running token 3; the lifecycle has been stopped since.
C28_Witness ==
    /\ startToken = 3
    /\ {<<1, "life">>, <<2, "stop">>, <<3, "ant">>} \subseteq req
    /\ Stopped
    /\ currentMode = "life"

\* ------------------------------------------------------------ progress
\* A control call of the host page.
ControlCall ==
    \/ \E mode \in ModeArgs : Start(mode)
    \/ Stop
    \/ \E mode \in ModeArgs : SetMode(mode)

\* requestAnimationFrame delivers every callback it was given: the frame
\* callback of each pending wait and of each render closure runs in the end.
FairSpec ==
    /\ Spec
    /\ \A token \in Tokens : WF_vars(CheckStyles(token))
    /\ \A token \in Tokens : WF_vars(Render(token))

\* The latest start() has a running simulator of the mode it requested.
RunningRequested ==
    /\ Running
    /\ cleanupFn = startToken
    /\ sims[startToken].state = "active"
    /\ <<startToken, sims[startToken].variant>> \in req

\* C29: if the readiness signal becomes true in the end and no control call
\* is made any more, the lifecycle leaves Starting for good: it is Running
\* with a simulator of the requested mode, or Stopped.  Until readiness holds
\* every frame polls again: a wait stays pending and nothing is constructed.
C29_StartingEnds ==
    /\ [](~stylesReady => Constructed = {} /\ (startToken > 0 /\ running => Starting))
    /\ (<>stylesReady /\ <>[][~ControlCall]_vars) =>
           <>[](~Starting /\ (RunningRequested \/ Stopped))

\* The wait of the latest start() has ended with its simulator built, and a
\* render frame has stepped it.
C29_Witness ==
    /\ RunningRequested
    /\ ~Starting
    /\ stylesReady
    /\ startToken \in stepped

\* C30: if one release call throws during a simulator's dispose, every other
\* resource of that simulator is still released, and the teardown completes:
\* the simulator is disposed, the surface hidden and the cleanup closure
\* cleared.
C30_OneThrowReleasesTheRest ==
    cleanupFn # 0 =>
        \A th \in ThrowPoints \ {NoThrow} :
            LET s == stop(State, th)
                thrown == IF th.cat = "programs" THEN programs[th.at]
                          ELSE IF th.cat = "framebuffers" THEN framebuffers[th.at]
                          ELSE buffers[th.at]
            IN  /\ s.sims[cleanupFn].live \subseteq {thrown}
                /\ s.sims[cleanupFn].state = "disposed"
                /\ s.display = "none"
                /\ s.cleanupFn = 0
                /\ ~s.running

\* C31: when simulator construction fails partway through the setup, every
\* resource the failed setup had created is released: once the lifecycle has
\* fallen back to Stopped, nothing of the failed attempt remains allocated.
C31_FailedSetupLeavesNothing ==
    Stopped => \A t \in Tokens : sims[t].state = "failed" => sims[t].live = {}

\* C37: no simulator is stepped after it has been disposed: a frame callback
\* of a disposed simulator's closure is cancelled, or its guard makes it
\* return before the call of step, whatever the order of the control calls
\* and callbacks.
C37_NoStepAfterDispose ==
    \A t \in Tokens :
        sims[t].state = "disposed" => t \notin frames \/ stale(State, t)

\* A simulator that was stepped has been disposed by a restart, and the
\* simulator of the restart is active with its frame callback pending.
C37_Witness ==
    \E t \in Tokens :
        /\ sims[t].state = "disposed"
        /\ t \in stepped
        /\ cleanupFn > t
        /\ sims[cleanupFn].state = "active"
        /\ cleanupFn \in frames

\* C38: an active simulator's variant is the mode getMode() returns, after
\* every sequence of start, stop and setMode calls and readiness
\* resolutions; and while a cleanup handler is registered the running flag
\* is true.
C38_ActiveVariantIsSelectedMode ==
    /\ \A t \in ActiveSims : sims[t].variant = getMode
    /\ cleanupFn # 0 => isRunning

\* A mode switch while running has replaced the life simulator, which was
\* stepped, by an active ant simulator.
C38_Witness ==
    \E t \in Tokens :
        /\ sims[t].variant = "life"
        /\ sims[t].state = "disposed"
        /\ t \in stepped
        /\ cleanupFn # 0
        /\ sims[cleanupFn].variant = "ant"
        /\ sims[cleanupFn].state = "active"
        /\ getMode = "ant"
        /\ <<cleanupFn, "ant">> \in req

\* ================================================================ Life
\* Largest side of the Life grid.
LifeN == 3

Cells(n) == (0..n-1) \X (0..n-1)

\* The surfaces of side n: the R channel of a texel reads 0.0 or 1.0.
Grids(n) == [Cells(n) -> {0, 1}]

\* TEXTURE_WRAP_S / TEXTURE_WRAP_T = CLAMP_TO_EDGE with NEAREST filtering: a
\* coordinate outside the texture reads the nearest edge texel.
clampToEdge(i, n) == IF i < 0 THEN 0 ELSE IF i > n - 1 THEN n - 1 ELSE i

\* float get(vec2 o): the texel at gl_FragCoord.xy + o of the fragment (x, y).
get(tex, n, x, y, o) == tex[<<clampToEdge(x + o[1], n), clampToEdge(y + o[2], n)>>]

\* The eight offsets main() adds up, in its order.
NeighbourOffsets ==
    << <<-1, -1>>, <<-1, 0>>, <<-1, 1>>, <<0, -1>>,
       <<0, 1>>, <<1, -1>>, <<1, 0>>, <<1, 1>> >>

RECURSIVE sumOf(_, _, _, _, _)
\* sum += get(...) over the first i offsets.
sumOf(tex, n, x, y, i) ==
    IF i = 0 THEN 0
    ELSE sumOf(tex, n, x, y, i - 1) + get(tex, n, x, y, NeighbourOffsets[i])

\* A rule that also gives birth on two neighbours.
lifeMainBirthOnTwo(tex, n, x, y) ==
    LET sum == sumOf(tex, n, x, y, Len(NeighbourOffsets))
        current == get(tex, n, x, y, <<0, 0>>)
    IN  IF 2 * current > 1
        THEN IF 2 * sum < 3 \/ 2 * sum > 7 THEN 0 ELSE current
        ELSE IF 2 * sum > 3 /\ 2 * sum < 7 THEN 1 ELSE current

\* void main() of the Life simfs; the comparisons with 0.5, 1.5, 2.5 and 3.5
\* are made on the doubled values.
lifeMain(tex, n, x, y) ==
    LET sum == sumOf(tex, n, x, y, Len(NeighbourOffsets))
        current == get(tex, n, x, y, <<0, 0>>)
    IN  IF 2 * current > 1
        THEN IF 2 * sum < 3 \/ 2 * sum > 7 THEN 0 ELSE current
        ELSE IF 2 * sum > 5 /\ 2 * sum < 7 THEN 1 ELSE current

\* One draw of the sim program into fboB over the n x n viewport.
lifeDraw(tex, n) == [c \in Cells(n) |-> lifeMain(tex, n, c[1], c[2])]

\* The last two entries of a history.
LastTwo(h) == IF Len(h) > 2 THEN Tail(h) ELSE h

LifeInit ==
    /\ lifeN \in 1..LifeN
    /\ lifeGrid \in Grids(lifeN)
    /\ lifeHist = <<>>
    /\ LifecycleIdle /\ AntIdle /\ RleIdle /\ XfIdle /\ SeedIdle /\ DrawIdle /\ SimIdle /\ OffIdle /\ SpawnIdle

\* One simulation step: draw from fboA into fboB, then swap the two.
LifeStep ==
    /\ lifeGrid' = lifeDraw(lifeGrid, lifeN)
    /\ lifeHist' = LastTwo(Append(lifeHist, lifeGrid))
    /\ UNCHANGED <<lifeN, lifecycleVars, antVars, rleVars, xfVars, seedVars, drawVars, simVars, offVars, spawnVars>>

LifeNext == LifeStep

LifeSpec == LifeInit /\ [][LifeNext]_vars

\* The surface before the last step, and the one before the last two steps.
lifeBefore == lifeHist[Len(lifeHist)]
lifeBefore2 == lifeHist[1]

\* The number of alive values among the eight neighbour values the fragment
\* (x, y) reads from the surface tex.
aliveRead(tex, n, x, y) ==
    Cardinality({i \in 1..Len(NeighbourOffsets) :
                     get(tex, n, x, y, NeighbourOffsets[i]) = 1})

\* C13: in one Life step, for every cell, with c the number of alive values
\* among the eight neighbour values it reads from the surface before the step:
\* an alive cell stays alive iff c is 2 or 3, and a dead cell becomes alive iff
\* c is 3.
C13_LifeRule ==
    lifeHist # <<>> =>
        \A cell \in Cells(lifeN) :
            LET c == aliveRead(lifeBefore, lifeN, cell[1], cell[2])
            IN  IF lifeBefore[cell] = 1
                THEN lifeGrid[cell] = 1 <=> c \in {2, 3}
                ELSE lifeGrid[cell] = 1 <=> c = 3

\* A step in which a cell survived on 2, one died on 4 or more, and one was
\* born on 3.
C13_Witness ==
    /\ lifeHist # <<>>
    /\ \E cell \in Cells(lifeN) :
           /\ lifeBefore[cell] = 1 /\ lifeGrid[cell] = 1
           /\ aliveRead(lifeBefore, lifeN, cell[1], cell[2]) = 2
    /\ \E cell \in Cells(lifeN) :
           /\ lifeBefore[cell] = 1 /\ lifeGrid[cell] = 0
           /\ aliveRead(lifeBefore, lifeN, cell[1], cell[2]) > 3
    /\ \E cell \in Cells(lifeN) :
           /\ lifeBefore[cell] = 0 /\ lifeGrid[cell] = 1
           /\ aliveRead(lifeBefore, lifeN, cell[1], cell[2]) = 3

\* The neighbour positions of a cell that lie outside the grid, as offsets.
OutsideOffsets(cell, n) ==
    {i \in 1..Len(NeighbourOffsets) :
         <<cell[1] + NeighbourOffsets[i][1], cell[2] + NeighbourOffsets[i][2]>>
             \notin Cells(n)}

\* C14: in a Life step a border cell reads every neighbour position outside
\* the grid as dead: such a position contributes 0 to the neighbour count.
C14_OutsideReadsDead ==
    lifeHist # <<>> =>
        \A cell \in Cells(lifeN) : \A i \in OutsideOffsets(cell, lifeN) :
            get(lifeBefore, lifeN, cell[1], cell[2], NeighbourOffsets[i]) = 0

\* The 3x3 surfaces with the middle row, and with the middle column, alive.
BlinkerRow == [c \in Cells(3) |-> IF c[2] = 1 THEN 1 ELSE 0]
BlinkerColumn == [c \in Cells(3) |-> IF c[1] = 1 THEN 1 ELSE 0]

\* C15: on a 3x3 grid whose only alive cells are the middle row, one Life
\* step yields exactly the middle column alive, and a second step yields the
\* middle row again.
C15_BlinkerPeriodTwo ==
    lifeN = 3 =>
        /\ (lifeHist # <<>> /\ lifeBefore = BlinkerRow) => lifeGrid = BlinkerColumn
        /\ (Len(lifeHist) = 2 /\ lifeBefore2 = BlinkerRow) => lifeGrid = BlinkerRow

\* ================================================================= Ant
\* Largest side of the Ant grid, and largest number of agents on it.
AntN == 2
MaxAnts == 2

\* The largest value of a channel of an RGBA8 texel; it reads as 1.0.
ByteMax == 255

\* The number of facings: floor(v * 4.0 + 0.5), dir / 4.0, mod(dir + 1.0, 4.0).
Facings == 4

\* A float num / den written to an 8-bit channel: the nearest of the values
\* 0..255, and either neighbour (tie = 0 or 1) when it lies half way.
unorm(num, den, tie) ==
    LET q == (ByteMax * num) \div den
        rem == (ByteMax * num) % den
    IN  IF 2 * rem < den THEN q ELSE IF 2 * rem > den THEN q + 1 ELSE q + tie

\* A decodeDir without the rounding: floor(v * 4.0).
decodeDirTruncates(v) == (Facings * v) \div ByteMax

\* float decodeDir(float v) of the channel value v / 255.
decodeDir(v) == (2 * Facings * v + ByteMax) \div (2 * ByteMax)

\* float encodeDir(float dir), as the channel stores it.
encodeDir(dir, tie) == unorm(dir, Facings, tie)

turnRight(dir) == (dir + 1) % Facings

turnLeft(dir) == (dir + 3) % Facings

\* vec4 sampleWrap(vec2 offset) for the fragment (x, y).
sampleWrap(tex, n, x, y, offset) ==
    tex[<<(x + offset[1] + n) % n, (y + offset[2] + n) % n>>]

offsets == << <<0, -1>>, <<1, 0>>, <<0, 1>>, <<-1, 0>> >>

incomingDir == <<2, 3, 0, 1>>

\* An agent that turns right on both colours.
newDirAlwaysRight(t) == turnRight(decodeDir(t.b))

\* The facing an agent on the texel t has after its turn.
newDirOf(t) ==
    IF 2 * t.r < ByteMax THEN turnRight(decodeDir(t.b)) ELSE turnLeft(decodeDir(t.b))

RECURSIVE incomingAnyWins(_, _, _, _, _)
\* A loop without the nextAnt < 0.5 test: the last agent moving in wins.
incomingAnyWins(tex, n, x, y, i) ==
    IF i = 0 THEN [nextAnt |-> 0, newDir |-> 0]
    ELSE LET acc == incomingAnyWins(tex, n, x, y, i - 1)
             neighbor == sampleWrap(tex, n, x, y, offsets[i])
         IN  IF 2 * neighbor.g > ByteMax /\ newDirOf(neighbor) = incomingDir[i]
             THEN [nextAnt |-> 1, newDir |-> newDirOf(neighbor)]
             ELSE acc

RECURSIVE incoming(_, _, _, _, _)
\* for (int i = 0; i < 4; ++i) { ... }: nextAnt and newDir after the first i
\* neighbours have been examined.
incoming(tex, n, x, y, i) ==
    IF i = 0 THEN [nextAnt |-> 0, newDir |-> 0]
    ELSE LET acc == incoming(tex, n, x, y, i - 1)
             neighbor == sampleWrap(tex, n, x, y, offsets[i])
         IN  IF /\ 2 * neighbor.g > ByteMax
                /\ acc.nextAnt = 0
                /\ newDirOf(neighbor) = incomingDir[i]
             THEN [nextAnt |-> 1, newDir |-> newDirOf(neighbor)]
             ELSE acc

\* A shader that also leaves an agent where one stood.
antMainLeavesCopy(tex, n, x, y, tie) ==
    LET state == tex[<<x, y>>]
        inc == incoming(tex, n, x, y, Len(offsets))
        stays == 2 * state.g > ByteMax
    IN  [r |-> IF 2 * state.g > ByteMax THEN ByteMax - state.r ELSE state.r,
         g |-> IF inc.nextAnt = 1 \/ stays THEN ByteMax ELSE 0,
         b |-> IF inc.nextAnt = 1 THEN encodeDir(inc.newDir, tie)
               ELSE IF stays THEN state.b ELSE 0]

\* void main() of the Ant simfs, with the texel written to the RGBA8 target.
antMain(tex, n, x, y, tie) ==
    LET state == tex[<<x, y>>]
        inc == incoming(tex, n, x, y, Len(offsets))
    IN  [r |-> IF 2 * state.g > ByteMax THEN ByteMax - state.r ELSE state.r,
         g |-> IF inc.nextAnt = 1 THEN ByteMax ELSE 0,
         b |-> IF inc.nextAnt = 1 THEN encodeDir(inc.newDir, tie) ELSE 0]

\* One draw of the sim program into fboB over the n x n viewport.
antDraw(tex, n, tie) == [c \in Cells(n) |-> antMain(tex, n, c[1], c[2], tie)]

\* The values the facing channel can hold: the ones spawnAnt writes,
\* Math.round(dir * 255 / 4), and the ones a step writes.
DirBytes == {encodeDir(d, tie) : d \in 0..(Facings - 1), tie \in {0, 1}}

\* The surfaces of side n with the agents on the cells of `at`: a track colour
\* for the cells without an agent, a colour and a facing for each agent.
antSurface(n, at, bg, colour, facing) ==
    [c \in Cells(n) |->
        IF c \in at THEN [r |-> colour[c], g |-> ByteMax, b |-> facing[c]]
        ELSE [r |-> bg, g |-> 0, b |-> 0]]

AntInit ==
    /\ antN \in 1..AntN
    /\ \E at \in {a \in SUBSET Cells(antN) : Cardinality(a) <= MaxAnts} :
       \E bg \in {0, ByteMax} :
       \E colour \in [at -> {0, ByteMax}] :
       \E facing \in [at -> DirBytes] :
           antGrid = antSurface(antN, at, bg, colour, facing)
    /\ antHist = <<>>
    /\ LifecycleIdle /\ LifeIdle /\ RleIdle /\ XfIdle /\ SeedIdle /\ DrawIdle /\ SimIdle /\ OffIdle /\ SpawnIdle

\* One simulation step of the seeded surface: draw from fboA into fboB, then
\* swap the two.
AntStep ==
    /\ antHist = <<>>
    /\ \E tie \in {0, 1} : antGrid' = antDraw(antGrid, antN, tie)
    /\ antHist' = <<antGrid>>
    /\ UNCHANGED <<antN, lifecycleVars, lifeVars, rleVars, xfVars, seedVars, drawVars, simVars, offVars, spawnVars>>

AntNext == AntStep

AntSpec == AntInit /\ [][AntNext]_vars

\* The surface before the last step.
antBefore == antHist[1]

hasAgent(tex, cell) == 2 * tex[cell].g > ByteMax

isLight(tex, cell) == 2 * tex[cell].r < ByteMax

Agents(tex, n) == {cell \in Cells(n) : hasAgent(tex, cell)}

\* The facing stored for the agent on a cell.
facingOf(tex, cell) == decodeDir(tex[cell].b)

\* The facing after a turn to the right on light and to the left on dark.
facingAfterTurn(tex, cell) ==
    IF isLight(tex, cell)
    THEN (facingOf(tex, cell) + 1) % Facings
    ELSE (facingOf(tex, cell) - 1) % Facings

\* The step one cell ahead for each facing: facing 1 is one cell to the right.
Ahead == << <<0, -1>>, <<1, 0>>, <<0, 1>>, <<-1, 0>> >>

\* The cell next to `cell` in the direction f on the torus of side n.
adjacent(cell, f, n) ==
    <<(cell[1] + Ahead[f + 1][1]) % n, (cell[2] + Ahead[f + 1][2]) % n>>

\* The cell the agent on `cell` moves to.
destination(tex, cell, n) == adjacent(cell, facingAfterTurn(tex, cell), n)

\* The agents that move into `cell`.
movers(tex, cell, n) == {e \in Agents(tex, n) : destination(tex, e, n) = cell}

\* C16: in one Ant step, for every cell hosting an agent whose destination no
\* other agent moves to: the cell's colour is flipped, the agent turns right
\* on light and left on dark, and the next state has an agent with the new
\* facing stored on the adjacent cell in the new facing direction, adjacency
\* wrapping modulo the grid side on both axes.
C16_AgentFlipsTurnsMoves ==
    antHist # <<>> =>
        \A cell \in Agents(antBefore, antN) :
            LET dest == destination(antBefore, cell, antN)
            IN  movers(antBefore, dest, antN) = {cell} =>
                    /\ isLight(antGrid, cell) # isLight(antBefore, cell)
                    /\ antGrid[cell].r \in {0, ByteMax}
                    /\ hasAgent(antGrid, dest)
                    /\ facingOf(antGrid, dest) = facingAfterTurn(antBefore, cell)

\* One agent facing 0 on the last column of an all-light grid has moved to
\* column 0, one cell to the right on the torus, faces 1 and has left its
\* start cell dark.
C16_Witness ==
    /\ antHist # <<>>
    /\ antN > 1
    /\ \E y \in 0..(antN - 1) :
           /\ Agents(antBefore, antN) = {<<antN - 1, y>>}
           /\ \A c \in Cells(antN) : isLight(antBefore, c)
           /\ facingOf(antBefore, <<antN - 1, y>>) = 0
           /\ Agents(antGrid, antN) = {<<0, y>>}
           /\ facingOf(antGrid, <<0, y>>) = 1
           /\ ~isLight(antGrid, <<antN - 1, y>>)

\* C17, as claimed: a cell holds an agent in the next state iff exactly one
\* agent moves into it; with two or more, or none, it holds no agent.
C17_AgentIffExactlyOneMover ==
    antHist # <<>> =>
        \A cell \in Cells(antN) :
            hasAgent(antGrid, cell) <=>
                Cardinality(movers(antBefore, cell, antN)) = 1

\* The order in which the loop meets the facings of the agents moving in.
RECURSIVE firstFacing(_, _)
firstFacing(fs, i) ==
    IF incomingDir[i] \in fs THEN incomingDir[i] ELSE firstFacing(fs, i + 1)

\* C17, amended: a cell holds an agent in the next state iff at least one agent
\* moves into it; of two or more it keeps a single one, the one whose new
\* facing comes first in the order 2, 3, 0, 1, with that facing stored.
C17_AgentIffSomeMover ==
    antHist # <<>> =>
        \A cell \in Cells(antN) :
            LET m == movers(antBefore, cell, antN)
            IN  /\ hasAgent(antGrid, cell) <=> m # {}
                /\ m # {} =>
                       facingOf(antGrid, cell) =
                           firstFacing({facingAfterTurn(antBefore, e) : e \in m}, 1)

\* Two agents moved into one cell, which holds one agent afterwards.
C17_Witness ==
    /\ antHist # <<>>
    /\ \E cell \in Cells(antN) :
           /\ Cardinality(movers(antBefore, cell, antN)) > 1
           /\ hasAgent(antGrid, cell)
           /\ Cardinality(Agents(antGrid, antN)) < Cardinality(Agents(antBefore, antN))

\* ================================================================= RLE
\* Largest number of characters drawn after the header line of a text.
MaxRleLen == 4

\* The rle strings of LIFE_PATTERN_SOURCES, character by character.
gliderRle ==
    <<
       "#", "N", " ", "G", "l", "i", "d", "e", "r", "\n", "#", "O", " ", "R",
       "i", "c", "h", "a", "r", "d", " ", "K", ".", " ", "G", "u", "y", "\n",
       "#", "C", " ", "T", "h", "e", " ", "s", "m", "a", "l", "l", "e", "s",
       "t", ",", " ", "m", "o", "s", "t", " ", "c", "o", "m", "m", "o", "n",
       ",", " ", "a", "n", "d", " ", "f", "i", "r", "s", "t", " ", "d", "i",
       "s", "c", "o", "v", "e", "r", "e", "d", " ", "s", "p", "a", "c", "e",
       "s", "h", "i", "p", ".", " ", "D", "i", "a", "g", "o", "n", "a", "l",
       ",", " ", "h", "a", "s", " ", "p", "e", "r", "i", "o", "d", " ", "4",
       " ", "a", "n", "d", " ", "s", "p", "e", "e", "d", " ", "c", "/", "4",
       ".", "\n", "#", "C", " ", "w", "w", "w", ".", "c", "o", "n", "w", "a",
       "y", "l", "i", "f", "e", ".", "c", "o", "m", "/", "w", "i", "k", "i",
       "/", "i", "n", "d", "e", "x", ".", "p", "h", "p", "?", "t", "i", "t",
       "l", "e", "=", "G", "l", "i", "d", "e", "r", "\n", "x", " ", "=", " ",
       "3", ",", " ", "y", " ", "=", " ", "3", ",", " ", "r", "u", "l", "e",
       " ", "=", " ", "B", "3", "/", "S", "2", "3", "\n", "b", "o", "b", "$",
       "2", "b", "o", "$", "3", "o", "!" >>

gosperGliderGunRle ==
    <<
       "#", "N", " ", "G", "o", "s", "p", "e", "r", " ", "g", "l", "i", "d",
       "e", "r", " ", "g", "u", "n", "\n", "#", "O", " ", "B", "i", "l", "l",
       " ", "G", "o", "s", "p", "e", "r", "\n", "#", "C", " ", "A", " ", "t",
       "r", "u", "e", " ", "p", "e", "r", "i", "o", "d", " ", "3", "0", " ",
       "g", "l", "i", "d", "e", "r", " ", "g", "u", "n", ".", "\n", "#", "C",
       " ", "T", "h", "e", " ", "f", "i", "r", "s", "t", " ", "k", "n", "o",
       "w", "n", " ", "g", "u", "n", " ", "a", "n", "d", " ", "t", "h", "e",
       " ", "f", "i", "r", "s", "t", " ", "k", "n", "o", "w", "n", " ", "f",
       "i", "n", "i", "t", "e", " ", "p", "a", "t", "t", "e", "r", "n", " ",
       "w", "i", "t", "h", " ", "u", "n", "b", "o", "u", "n", "d", "e", "d",
       " ", "g", "r", "o", "w", "t", "h", ".", "\n", "#", "C", " ", "w", "w",
       "w", ".", "c", "o", "n", "w", "a", "y", "l", "i", "f", "e", ".", "c",
       "o", "m", "/", "w", "i", "k", "i", "/", "i", "n", "d", "e", "x", ".",
       "p", "h", "p", "?", "t", "i", "t", "l", "e", "=", "G", "o", "s", "p",
       "e", "r", "_", "g", "l", "i", "d", "e", "r", "_", "g", "u", "n", "\n",
       "x", " ", "=", " ", "3", "6", ",", " ", "y", " ", "=", " ", "9", ",",
       " ", "r", "u", "l", "e", " ", "=", " ", "B", "3", "/", "S", "2", "3",
       "\n", "2", "4", "b", "o", "1", "1", "b", "$", "2", "2", "b", "o", "b",
       "o", "1", "1", "b", "$", "1", "2", "b", "2", "o", "6", "b", "2", "o",
       "1", "2", "b", "2", "o", "$", "1", "1", "b", "o", "3", "b", "o", "4",
       "b", "2", "o", "1", "2", "b", "2", "o", "$", "2", "o", "8", "b", "o",
       "5", "b", "o", "3", "b", "2", "o", "1", "4", "b", "$", "2", "o", "8",
       "b", "o", "3", "b", "o", "b", "2", "o", "4", "b", "o", "b", "o", "1",
       "1", "b", "$", "1", "0", "b", "o", "5", "b", "o", "7", "b", "o", "1",
       "1", "b", "$", "1", "1", "b", "o", "3", "b", "o", "2", "0", "b", "$",
       "1", "2", "b", "2", "o", "!" >>

puffer1Rle ==
    <<
       "#", "N", " ", "P", "u", "f", "f", "e", "r", " ", "1", "\n", "#", "O",
       " ", "B", "i", "l", "l", " ", "G", "o", "s", "p", "e", "r", "\n", "#",
       "C", " ", "A", "n", " ", "o", "r", "t", "h", "o", "g", "o", "n", "a",
       "l", ",", " ", "p", "e", "r", "i", "o", "d", "-", "1", "2", "8", " ",
       "p", "u", "f", "f", "e", "r", " ", "a", "n", "d", " ", "t", "h", "e",
       " ", "f", "i", "r", "s", "t", " ", "p", "u", "f", "f", "e", "r", " ",
       "t", "o", " ", "b", "e", " ", "d", "i", "s", "c", "o", "v", "e", "r",
       "e", "d", "\n", "#", "C", " ", "r", "e", "d", "\n", "#", "C", " ",
       "h", "t", "t", "p", ":", "/", "/", "w", "w", "w", ".", "c", "o", "n",
       "w", "a", "y", "l", "i", "f", "e", ".", "c", "o", "m", "/", "w", "i",
       "k", "i", "/", "i", "n", "d", "e", "x", ".", "p", "h", "p", "?", "t",
       "i", "t", "l", "e", "=", "P", "u", "f", "f", "e", "r", "_", "1", "\n",
       "x", " ", "=", " ", "2", "7", ",", " ", "y", " ", "=", " ", "7", ",",
       " ", "r", "u", "l", "e", " ", "=", " ", "b", "3", "/", "s", "2", "3",
       "\n", "b", "3", "o", "6", "b", "o", "5", "b", "o", "6", "b", "3", "o",
       "b", "$", "o", "2", "b", "o", "5", "b", "3", "o", "3", "b", "3", "o",
       "5", "b", "o", "2", "b", "o", "$", "3", "b", "o", "4", "b", "2", "o",
       "b", "o", "3", "b", "o", "b", "2", "o", "4", "b", "o", "3", "b", "$",
       "3", "b", "o", "1", "9", "b", "o", "3", "b", "$", "3", "b", "o", "2",
       "b", "o", "1", "3", "b", "o", "2", "b", "o", "3", "b", "$", "3", "b",
       "o", "2", "b", "2", "o", "1", "1", "b", "2", "o", "2", "b", "o", "3",
       "b", "$", "2", "b", "o", "3", "b", "2", "o", "1", "1", "b", "2", "o",
       "3", "b", "o", "!" >>

rPentominoRle ==
    <<
       "#", "N", " ", "R", "-", "p", "e", "n", "t", "o", "m", "i", "n", "o",
       "\n", "#", "C", " ", "A", " ", "m", "e", "t", "h", "u", "s", "e", "l",
       "a", "h", " ", "w", "i", "t", "h", " ", "l", "i", "f", "e", "s", "p",
       "a", "n", " ", "1", "1", "0", "3", ".", "\n", "#", "C", " ", "w", "w",
       "w", ".", "c", "o", "n", "w", "a", "y", "l", "i", "f", "e", ".", "c",
       "o", "m", "/", "w", "i", "k", "i", "/", "i", "n", "d", "e", "x", ".",
       "p", "h", "p", "?", "t", "i", "t", "l", "e", "=", "R", "-", "p", "e",
       "n", "t", "o", "m", "i", "n", "o", "\n", "x", " ", "=", " ", "3", ",",
       " ", "y", " ", "=", " ", "3", ",", " ", "r", "u", "l", "e", " ", "=",
       " ", "B", "3", "/", "S", "2", "3", "\n", "b", "2", "o", "$", "2", "o",
       "b", "$", "b", "o", "!" >>

LIFE_PATTERN_SOURCES ==
    << [name |-> "glider", rle |-> gliderRle],
       [name |-> "gosperGliderGun", rle |-> gosperGliderGunRle],
       [name |-> "puffer1", rle |-> puffer1Rle],
       [name |-> "rPentomino", rle |-> rPentominoRle] >>

\* The characters \s matches and trim() removes.
Whitespace == {" ", "\t", "\r", "\n"}

Digits == <<"0", "1", "2", "3", "4", "5", "6", "7", "8", "9">>

\* ch >= '0' && ch <= '9'
isDigit(ch) == \E i \in 1..Len(Digits) : Digits[i] = ch

digitValue(ch) == (CHOOSE i \in 1..Len(Digits) : Digits[i] = ch) - 1

\* The \r? of the separator /\r?\n/.
dropCR(line) ==
    IF Len(line) > 0 /\ line[Len(line)] = "\r"
    THEN SubSeq(line, 1, Len(line) - 1)
    ELSE line

\* rle.split(/\r?\n/): the pieces between the line feeds, in their order,
\* each without the carriage return before its line feed.
splitLines(rle) ==
    LET feeds == {i \in 1..Len(rle) : rle[i] = "\n"}
        feed(k) == CHOOSE i \in feeds : Cardinality({j \in feeds : j <= i}) = k
        first(k) == IF k = 1 THEN 1 ELSE feed(k - 1) + 1
        last(k) == IF k > Cardinality(feeds) THEN Len(rle) ELSE feed(k) - 1
    IN  [k \in 1..(Cardinality(feeds) + 1) |->
            IF k > Cardinality(feeds)
            THEN SubSeq(rle, first(k), last(k))
            ELSE dropCR(SubSeq(rle, first(k), last(k)))]

RECURSIVE skipSpaces(_, _)
\* The first position from j on that holds no whitespace.
skipSpaces(line, j) ==
    IF j <= Len(line) /\ line[j] \in Whitespace THEN skipSpaces(line, j + 1) ELSE j

RECURSIVE skipSpacesBack(_, _)
skipSpacesBack(line, j) ==
    IF j >= 1 /\ line[j] \in Whitespace THEN skipSpacesBack(line, j - 1) ELSE j

\* lines[i].trim()
trim(line) == SubSeq(line, skipSpaces(line, 1), skipSpacesBack(line, Len(line)))

\* /^x\s*=\s*/i.test(line)
isHeader(line) ==
    /\ Len(line) > 0
    /\ line[1] \in {"x", "X"}
    /\ LET j == skipSpaces(line, 2) IN j <= Len(line) /\ line[j] = "="

RECURSIVE dataParts(_, _, _, _)
\* The first loop: the lines after the header line, trimmed and joined.
dataParts(lines, i, dataStarted, acc) ==
    IF i > Len(lines) THEN acc
    ELSE LET line == trim(lines[i])
         IN  IF line = <<>> THEN dataParts(lines, i + 1, dataStarted, acc)
             ELSE IF ~dataStarted
                  THEN dataParts(lines, i + 1, isHeader(line), acc)
                  ELSE dataParts(lines, i + 1, dataStarted, acc \o line)

\* .replace(/\s+/g, '')
removeSpaces(text) == SelectSeq(text, LAMBDA ch : ch \notin Whitespace)

NoCount == [given |-> FALSE, value |-> 0]

\* count ? parseInt(count, 10) : 1
runOf(count) == IF count.given THEN count.value ELSE 1

\* An iteration that leaves the column where it is at the end of a row.
scanCharKeepsColumn(st, ch) ==
    LET run == runOf(st.count)
    IN  IF st.done THEN st
        ELSE IF isDigit(ch)
        THEN [st EXCEPT !.count =
                 [given |-> TRUE, value |-> 10 * st.count.value + digitValue(ch)]]
        ELSE IF ch \in {"o", "O"}
        THEN [st EXCEPT !.count = NoCount,
                        !.cells = @ \o [k \in 1..run |-> <<st.x + k - 1, st.y>>],
                        !.x = @ + run]
        ELSE IF ch \in {"b", "B"}
        THEN [st EXCEPT !.count = NoCount, !.x = @ + run]
        ELSE IF ch = "$"
        THEN [st EXCEPT !.count = NoCount, !.y = @ + run]
        ELSE IF ch = "!"
        THEN [st EXCEPT !.count = NoCount, !.done = TRUE]
        ELSE [st EXCEPT !.count = NoCount]

\* One iteration of the second loop on the character ch; st.done is set by
\* the break.
scanChar(st, ch) ==
    LET run == runOf(st.count)
    IN  IF st.done THEN st
        ELSE IF isDigit(ch)
        THEN [st EXCEPT !.count =
                 [given |-> TRUE, value |-> 10 * st.count.value + digitValue(ch)]]
        ELSE IF ch \in {"o", "O"}
        THEN [st EXCEPT !.count = NoCount,
                        !.cells = @ \o [k \in 1..run |-> <<st.x + k - 1, st.y>>],
                        !.x = @ + run]
        ELSE IF ch \in {"b", "B"}
        THEN [st EXCEPT !.count = NoCount, !.x = @ + run]
        ELSE IF ch = "$"
        THEN [st EXCEPT !.count = NoCount, !.y = @ + run, !.x = 0]
        ELSE IF ch = "!"
        THEN [st EXCEPT !.count = NoCount, !.done = TRUE]
        ELSE [st EXCEPT !.count = NoCount]

RECURSIVE scanRange(_, _, _, _)
\* The iterations for the characters lo..hi of raw, in their order, up to
\* the break.
scanRange(raw, lo, hi, st) ==
    IF lo > hi THEN st
    ELSE IF lo = hi THEN scanChar(st, raw[lo])
    ELSE LET mid == (lo + hi) \div 2
             half == scanRange(raw, lo, mid, st)
         IN  IF half.done THEN half ELSE scanRange(raw, mid + 1, hi, half)

scan(raw) ==
    scanRange(raw, 1, Len(raw),
              [x |-> 0, y |-> 0, count |-> NoCount, cells |-> <<>>,
               done |-> FALSE]).cells

largest(S) == CHOOSE m \in S : \A k \in S : k <= m
smallest(S) == CHOOSE m \in S : \A k \in S : m <= k

\* A third loop that takes the largest coordinate itself for the size.
boundsWithoutPlusOne(cells) ==
    [width |-> largest({0} \cup {cells[i][1] : i \in 1..Len(cells)}),
     height |-> largest({0} \cup {cells[i][2] : i \in 1..Len(cells)})]

\* The third loop: width and height start at 0 and are raised to cx + 1 and
\* cy + 1 of every cell that exceeds them.
boundsOf(cells) ==
    [width |-> largest({0} \cup {cells[i][1] + 1 : i \in 1..Len(cells)}),
     height |-> largest({0} \cup {cells[i][2] + 1 : i \in 1..Len(cells)})]

parseLifeRle(rle) ==
    LET lines == splitLines(rle)
        raw == removeSpaces(dataParts(lines, 1, FALSE, <<>>))
        cells == scan(raw)
        size == boundsOf(cells)
    IN  [cells |-> cells, width |-> size.width, height |-> size.height]

\* The texts of the library, and the texts made of a header line, or none,
\* followed by up to MaxRleLen characters.
LibraryTexts == {LIFE_PATTERN_SOURCES[i].rle : i \in 1..Len(LIFE_PATTERN_SOURCES)}

RleAlphabet == {"o", "b", "$", "!", "2", "x", "=", "\n"}

Headers ==
    { <<>>,
      <<"x", "=", "1", ",", "y", "=", "1", "\n">>,
      <<"#", "C", " ", "o", "\r", "\n", "X", " ", "=", " ", "9", ",", " ",
        "y", " ", "=", " ", "9", "\n">> }

SeqsUpTo(S, n) == UNION {[1..k -> S] : k \in 0..n}

RleInit ==
    /\ \/ rleText \in LibraryTexts
       \/ \E header \in Headers : \E body \in SeqsUpTo(RleAlphabet, MaxRleLen) :
              rleText = header \o body
    /\ rleOut = <<>>
    /\ LifecycleIdle /\ LifeIdle /\ AntIdle /\ XfIdle /\ SeedIdle /\ DrawIdle /\ SimIdle /\ OffIdle /\ SpawnIdle

\* The call parseLifeRle(rleText).
Parse ==
    /\ rleOut = <<>>
    /\ rleOut' = <<parseLifeRle(rleText)>>
    /\ UNCHANGED <<rleText, lifecycleVars, lifeVars, antVars, xfVars, seedVars, drawVars, simVars, offVars, spawnVars>>

RleNext == Parse

RleSpec == RleInit /\ [][RleNext]_vars

parsed == rleOut[1]

\* The columns and the rows of a cell list.
columnsOf(cells) == {cells[i][1] : i \in 1..Len(cells)}
rowsOf(cells) == {cells[i][2] : i \in 1..Len(cells)}

\* The sides of the tightest box around a non-empty set of coordinates.
tightSide(S) == largest(S) - smallest(S) + 1

\* C18, as claimed: for every RLE text, the width and height the parser
\* returns are the sides of the tightest bounding box of the emitted cells.
C18_TightestBoundingBox ==
    (rleOut # <<>> /\ parsed.cells # <<>>) =>
        /\ parsed.width = tightSide(columnsOf(parsed.cells))
        /\ parsed.height = tightSide(rowsOf(parsed.cells))

\* C18, amended: the width and height the parser returns are one more than
\* the largest column and row of the emitted cells (0 when no cell is
\* emitted), whatever the header declares; for the four library patterns,
\* which have a cell in column 0 and a cell in row 0, that is the tightest
\* bounding box.
C18_ExtentFromOrigin ==
    rleOut # <<>> =>
        /\ parsed.cells = <<>> => (parsed.width = 0 /\ parsed.height = 0)
        /\ parsed.cells # <<>> =>
               /\ parsed.width = largest(columnsOf(parsed.cells)) + 1
               /\ parsed.height = largest(rowsOf(parsed.cells)) + 1
        /\ rleText \in LibraryTexts =>
               /\ parsed.cells # <<>>
               /\ parsed.width = tightSide(columnsOf(parsed.cells))
               /\ parsed.height = tightSide(rowsOf(parsed.cells))

\* The Gosper glider gun has been parsed: 36 cells in a box of 36 by 9.
C18_Witness ==
    /\ rleOut # <<>>
    /\ rleText = gosperGliderGunRle
    /\ Len(parsed.cells) = 36
    /\ parsed.width = 36
    /\ parsed.height = 9

\* The characters after the header line, as the second loop reads them.
rawOf(rle) == removeSpaces(dataParts(splitLines(rle), 1, FALSE, <<>>))

RECURSIVE decimal(_)
\* The number a string of decimal digits denotes.
decimal(digits) ==
    IF digits = <<>> THEN 0
    ELSE 10 * decimal(SubSeq(digits, 1, Len(digits) - 1))
           + digitValue(digits[Len(digits)])

\* The reference decoding of a token stream.  A run is a symbol, a character
\* that is no digit, with the digits that stand right before it as its count
\* (1 when there are none).  The stream ends at its first `!`.  A symbol's row
\* is the sum of the counts of the `$` before it, its column the sum of the
\* counts of the o and b runs between the last `$` before it and itself.
\* Each o run gives one cell for each column it covers, runs in stream order
\* and the columns of a run from left to right: the j-th cell belongs to the
\* o run that the counts of the o runs before it leave j in.
referenceCells(raw) ==
    LET symbols == {i \in 1..Len(raw) : ~isDigit(raw[i])}
        ends == {i \in symbols : raw[i] = "!"}
        end == IF ends = {} THEN Len(raw) + 1 ELSE smallest(ends)
        from(i) == smallest({s \in 1..i : \A j \in s..(i - 1) : isDigit(raw[j])})
        run == [i \in symbols |->
                   IF from(i) = i THEN 1 ELSE decimal(SubSeq(raw, from(i), i - 1))]
        \* The sum of the counts of the runs at the positions P.
        total(P) == Cardinality(UNION {{<<p, k>> : k \in 1..run[p]} : p \in P})
        rowsEnded(i) == {p \in symbols : p < i /\ raw[p] = "$"}
        rowStart(i) == IF rowsEnded(i) = {} THEN 0 ELSE largest(rowsEnded(i))
        row == [i \in symbols |-> total(rowsEnded(i))]
        column == [i \in symbols |->
                      total({p \in symbols : /\ rowStart(i) < p /\ p < i
                                             /\ raw[p] \in {"o", "O", "b", "B"}})]
        alive == {i \in symbols : i < end /\ raw[i] \in {"o", "O"}}
        before == [i \in alive |-> total({p \in alive : p < i})]
    IN  [j \in 1..total(alive) |->
            LET i == CHOOSE p \in alive : before[p] < j /\ j <= before[p] + run[p]
            IN  <<column[i] + (j - before[i] - 1), row[i]>>]

\* C32: for every token stream after the header, the parser's cell list is
\* the reference decoding: optional multi-digit counts, o appends a cell for
\* each column of its run, b advances the column, $ advances the row and
\* resets the column, and nothing after the first ! contributes a cell.
C32_CellsAreReferenceDecoding ==
    rleOut # <<>> => parsed.cells = referenceCells(rawOf(rleText))

\* A text with a counted run, and an o after its ! that gave no cell.
C32_Witness ==
    /\ rleOut # <<>>
    /\ LET raw == rawOf(rleText)
       IN  \E i, j \in 1..Len(raw) :
               /\ i < j
               /\ raw[i] = "!"
               /\ raw[j] = "o"
               /\ raw[1] = "2"
    /\ parsed.cells = << <<0, 0>>, <<1, 0>> >>

\* =========================================================== transform
\* Largest width and height of a pattern, and largest number of its cells.
MaxDim == 2
MaxCells == 2

\* (Math.random() * 4) | 0
Rotations == 0..3

\* A loop body that uses ty twice in the quarter turn.
transformCellTyTwice(cell, w, h, rot, mirror) ==
    LET tx == IF mirror THEN w - 1 - cell[1] ELSE cell[1]
        ty == cell[2]
    IN  IF rot = 0 THEN <<tx, ty>>
        ELSE IF rot = 1 THEN <<ty, w - 1 - ty>>
        ELSE IF rot = 2 THEN <<w - 1 - tx, h - 1 - ty>>
        ELSE <<h - 1 - ty, tx>>

\* A loop body that uses the width for the height in the three-quarter turn.
transformCellWidthForHeight(cell, w, h, rot, mirror) ==
    LET tx == IF mirror THEN w - 1 - cell[1] ELSE cell[1]
        ty == cell[2]
    IN  IF rot = 0 THEN <<tx, ty>>
        ELSE IF rot = 1 THEN <<ty, w - 1 - tx>>
        ELSE IF rot = 2 THEN <<w - 1 - tx, h - 1 - ty>>
        ELSE <<w - 1 - ty, tx>>

\* A loop body that uses the height for the width in the quarter turn.
transformCellHeightForWidth(cell, w, h, rot, mirror) ==
    LET tx == IF mirror THEN w - 1 - cell[1] ELSE cell[1]
        ty == cell[2]
    IN  IF rot = 0 THEN <<tx, ty>>
        ELSE IF rot = 1 THEN <<ty, h - 1 - tx>>
        ELSE IF rot = 2 THEN <<w - 1 - tx, h - 1 - ty>>
        ELSE <<h - 1 - ty, tx>>

\* A loop body that rotates first and mirrors the rotated cell.
transformCellRotateFirst(cell, w, h, rot, mirror) ==
    LET rx == IF rot = 0 THEN cell[1]
              ELSE IF rot = 1 THEN cell[2]
              ELSE IF rot = 2 THEN w - 1 - cell[1]
              ELSE h - 1 - cell[2]
        ry == IF rot = 0 THEN cell[2]
              ELSE IF rot = 1 THEN w - 1 - cell[1]
              ELSE IF rot = 2 THEN h - 1 - cell[2]
              ELSE cell[1]
        nw == IF rot % 2 = 0 THEN w ELSE h
    IN  <<IF mirror THEN nw - 1 - rx ELSE rx, ry>>

\* The body of the loop: [nx, ny] for one cell.
transformCell(cell, w, h, rot, mirror) ==
    LET tx == IF mirror THEN w - 1 - cell[1] ELSE cell[1]
        ty == cell[2]
    IN  IF rot = 0 THEN <<tx, ty>>
        ELSE IF rot = 1 THEN <<ty, w - 1 - tx>>
        ELSE IF rot = 2 THEN <<w - 1 - tx, h - 1 - ty>>
        ELSE <<h - 1 - ty, tx>>

transformLifePattern(pattern, rotation, mirror) ==
    LET rot == rotation % 4
        w == pattern.width
        h == pattern.height
    IN  [width |-> IF rot % 2 = 0 THEN w ELSE h,
         height |-> IF rot % 2 = 0 THEN h ELSE w,
         cells |-> [i \in 1..Len(pattern.cells) |->
                       transformCell(pattern.cells[i], w, h, rot, mirror)]]

\* const LIFE_PATTERNS = LIFE_PATTERN_SOURCES.map(...)
LIFE_PATTERNS == {parseLifeRle(t) : t \in LibraryTexts}

\* The patterns a call may be given: the library's, and every pattern of up to
\* MaxCells cells with coordinates below MaxDim and sides of at most MaxDim,
\* within its box or not.
XfInputs ==
    LIFE_PATTERNS \cup
    {[width |-> w, height |-> h, cells |-> cells] :
         w \in 1..MaxDim, h \in 1..MaxDim,
         cells \in SeqsUpTo(Cells(MaxDim), MaxCells)}

XfInit ==
    /\ xfPattern \in XfInputs
    /\ xfTrail = <<>>
    /\ LifecycleIdle /\ LifeIdle /\ AntIdle /\ RleIdle /\ SeedIdle /\ DrawIdle /\ SimIdle /\ OffIdle /\ SpawnIdle

\* The call transformLifePattern(xfPattern, rotation, mirror), its result
\* being the pattern the next call is given.
Transform(rotation, mirror) ==
    /\ xfPattern' = transformLifePattern(xfPattern, rotation, mirror)
    /\ xfTrail' = LastTwo(Append(xfTrail,
                      [from |-> xfPattern, rotation |-> rotation, mirror |-> mirror]))
    /\ UNCHANGED <<lifecycleVars, lifeVars, antVars, rleVars, seedVars, drawVars, simVars, offVars, spawnVars>>

XfNext == \E rotation \in Rotations : \E mirror \in BOOLEAN : Transform(rotation, mirror)

XfSpec == XfInit /\ [][XfNext]_vars

\* The last call, and the call before it.
lastCall == xfTrail[Len(xfTrail)]
firstCall == xfTrail[1]

cellSet(pattern) == {pattern.cells[i] : i \in 1..Len(pattern.cells)}

\* The cells of the pattern lie inside its width x height box.
insideBox(pattern) ==
    \A c \in cellSet(pattern) :
        c[1] \in 0..(pattern.width - 1) /\ c[2] \in 0..(pattern.height - 1)

\* C19: for each rotation and both mirror settings, the cell list returned by
\* transformLifePattern has the length of the input's, and distinct input
\* cells are mapped to distinct output cells, so that the number of distinct
\* cells is preserved.
C19_TransformPreservesCells ==
    xfTrail # <<>> =>
        LET in == lastCall.from.cells
            out == xfPattern.cells
        IN  /\ Len(out) = Len(in)
            /\ \A i, j \in 1..Len(in) : in[i] # in[j] => out[i] # out[j]
            /\ Cardinality(cellSet(xfPattern)) = Cardinality(cellSet(lastCall.from))

\* The glider has been mirrored and turned by a quarter: five distinct cells.
C19_Witness ==
    /\ xfTrail # <<>>
    /\ lastCall.from = parseLifeRle(gliderRle)
    /\ lastCall.rotation = 1
    /\ lastCall.mirror
    /\ Cardinality(cellSet(xfPattern)) = 5
    /\ xfPattern # lastCall.from

\* The pairs of rotations that undo each other.
InversePairs == {<<2, 2>>, <<1, 3>>, <<3, 1>>}

\* C20: without mirroring, rotation 2 applied twice, rotation 1 followed by
\* rotation 3 and rotation 3 followed by rotation 1 return the original cells
\* and dimensions, for every pattern whose cells lie inside its box.
C20_RotationsUndoEachOther ==
    (/\ Len(xfTrail) = 2
     /\ ~firstCall.mirror
     /\ ~lastCall.mirror
     /\ <<firstCall.rotation, lastCall.rotation>> \in InversePairs
     /\ insideBox(firstCall.from)) =>
        xfPattern = firstCall.from

\* The Gosper glider gun, 36 by 9, has been turned by a quarter to 9 by 36
\* and back by three quarters.
C20_Witness ==
    /\ Len(xfTrail) = 2
    /\ firstCall.from = parseLifeRle(gosperGliderGunRle)
    /\ insideBox(firstCall.from)
    /\ firstCall.rotation = 1 /\ ~firstCall.mirror
    /\ lastCall.rotation = 3 /\ ~lastCall.mirror
    /\ lastCall.from.width = 9
    /\ lastCall.from.height = 36
    /\ lastCall.from.cells # firstCall.from.cells
    /\ xfPattern.width = 36

\* C33: the mirror is applied first and the rotation second: with x' the
\* mirrored column (width-1-x under mirror, x otherwise), every cell (x, y) of
\* every pattern goes to (x', y), (y, width-1-x'), (width-1-x', height-1-y) or
\* (height-1-y, x') for rotation 0, 1, 2 or 3.
C33_MirrorThenRotate ==
    xfTrail # <<>> =>
        LET width == lastCall.from.width
            height == lastCall.from.height
            given == lastCall.from.cells
        IN  /\ Len(xfPattern.cells) = Len(given)
            /\ \A i \in 1..Len(given) :
                   LET x == given[i][1]
                       y == given[i][2]
                       x1 == IF lastCall.mirror THEN width - 1 - x ELSE x
                   IN  /\ lastCall.rotation = 0 => xfPattern.cells[i] = <<x1, y>>
                       /\ lastCall.rotation = 1
                              => xfPattern.cells[i] = <<y, width - 1 - x1>>
                       /\ lastCall.rotation = 2
                              => xfPattern.cells[i] = <<width - 1 - x1, height - 1 - y>>
                       /\ lastCall.rotation = 3
                              => xfPattern.cells[i] = <<height - 1 - y, x1>>

\* The glider gun mirrored and turned a quarter: its first cell (24, 0) goes
\* to (0, 24), where rotating before mirroring would put it at (8, 11).
C33_Witness ==
    /\ xfTrail # <<>>
    /\ lastCall.mirror
    /\ lastCall.rotation = 1
    /\ lastCall.from.width = 36
    /\ lastCall.from.height = 9
    /\ lastCall.from.cells[1] = <<24, 0>>
    /\ xfPattern.cells[1] = <<0, 24>>

\* C21: for every pattern whose cells lie in [0,width) x [0,height), every
\* rotation in 0..3 and both mirror settings, every cell of the transformed
\* pattern lies inside the returned dimensions, which are (width, height) for
\* even rotations and (height, width) for odd ones.
C21_TransformStaysInBox ==
    (xfTrail # <<>> /\ insideBox(lastCall.from)) =>
        /\ insideBox(xfPattern)
        /\ <<xfPattern.width, xfPattern.height>> =
               IF lastCall.rotation \in {0, 2}
               THEN <<lastCall.from.width, lastCall.from.height>>
               ELSE <<lastCall.from.height, lastCall.from.width>>

\* Puffer 1, 27 by 7, has been mirrored and turned by three quarters: it is
\* 7 by 27, with a cell below row 7.
C21_Witness ==
    /\ xfTrail # <<>>
    /\ lastCall.from = parseLifeRle(puffer1Rle)
    /\ insideBox(lastCall.from)
    /\ lastCall.rotation = 3
    /\ lastCall.mirror
    /\ xfPattern.width = 7
    /\ xfPattern.height = 27
    /\ \E c \in cellSet(xfPattern) : c[2] > 7

\* C27: an Ant step never duplicates an agent and never puts two agents in
\* one cell: afterwards every cell holds no agent or a single agent with one
\* facing, every agent stands on the destination of an agent of the state
\* before, and there are no more agents than before.
C27_NoAgentDuplicated ==
    antHist # <<>> =>
        /\ \A c \in Cells(antN) :
               \/ antGrid[c].g = 0 /\ antGrid[c].b = 0
               \/ antGrid[c].g = ByteMax /\ antGrid[c].b \in DirBytes
        /\ Agents(antGrid, antN) \subseteq
               {destination(antBefore, e, antN) : e \in Agents(antBefore, antN)}
        /\ Cardinality(Agents(antGrid, antN)) <= Cardinality(Agents(antBefore, antN))

\* Two agents on different cells have both moved, to two different cells.
C27_Witness ==
    /\ antHist # <<>>
    /\ Cardinality(Agents(antBefore, antN)) = 2
    /\ Cardinality(Agents(antGrid, antN)) = 2
    /\ Agents(antGrid, antN) # Agents(antBefore, antN)

\* ============================================================= seeding
\* Largest side of the seed buffer.
SeedN == 4

\* LIFE_PATTERN_SOURCES with the parsed cells: the fields seedLifeBoard reads.
SeedLibrary ==
    << [pattern |-> parseLifeRle(gliderRle), minCount |-> 4, maxCount |-> 7,
        padding |-> 6],
       [pattern |-> parseLifeRle(gosperGliderGunRle), minCount |-> 1,
        maxCount |-> 1, padding |-> 10],
       [pattern |-> parseLifeRle(puffer1Rle), minCount |-> 1, maxCount |-> 1,
        padding |-> 10],
       [pattern |-> parseLifeRle(rPentominoRle), minCount |-> 2, maxCount |-> 4,
        padding |-> 4] >>

inBounds(size, x, y) == x >= 0 /\ x < size /\ y >= 0 /\ y < size

isEmpty(data, size, x, y) ==
    IF ~inBounds(size, x, y) THEN FALSE ELSE data[<<x, y>>] = 0

\* A chooseOffset that leaves the padding free on the low side only.
chooseOffsetOneSided(size, patternSize, padding) ==
    LET span == size - patternSize
        least == IF padding < span THEN padding ELSE span
        pad == IF least > 0 THEN least ELSE 0
    IN  IF span <= 0 THEN {0}
        ELSE IF span - pad < pad THEN 0..span
        ELSE pad..span

\* The values Math.random() lets chooseOffset return.
chooseOffset(size, patternSize, padding) ==
    LET span == size - patternSize
        least == IF padding < span THEN padding ELSE span
        pad == IF least > 0 THEN least ELSE 0
    IN  IF span <= 0 THEN {0}
        ELSE IF span - pad < pad THEN 0..span
        ELSE pad..(span - pad)

\* A test that only asks for the cells to lie in the buffer.
canStampInBounds(data, size, cells, offsetX, offsetY) ==
    \A i \in 1..Len(cells) :
        inBounds(size, offsetX + cells[i][1], offsetY + cells[i][2])

canStamp(data, size, cells, offsetX, offsetY) ==
    \A i \in 1..Len(cells) :
        isEmpty(data, size, offsetX + cells[i][1], offsetY + cells[i][2])

\* The coordinates stampPattern hands to setRgb.
stampedAt(cells, offsetX, offsetY) ==
    {<<offsetX + cells[i][1], offsetY + cells[i][2]>> : i \in 1..Len(cells)}

\* setRgb writes 255 to a cell of the buffer and nothing outside it.
stampPattern(data, size, cells, offsetX, offsetY) ==
    [c \in Cells(size) |->
        IF c \in stampedAt(cells, offsetX, offsetY) THEN ByteMax ELSE data[c]]

\* The orientations and offsets one attempt of placePattern may draw.
Attempts(size, entry) ==
    UNION {{[cells |-> o.cells, offsetX |-> ox, offsetY |-> oy] :
                ox \in chooseOffset(size, o.width, entry.padding),
                oy \in chooseOffset(size, o.height, entry.padding)} :
           o \in {transformLifePattern(entry.pattern, r, m) :
                     r \in Rotations, m \in BOOLEAN}}

\* randomInt(pattern.minCount, pattern.maxCount) of the pattern after the
\* i-th, and 0 after the last.
NextCounts(i) ==
    IF i < Len(SeedLibrary)
    THEN SeedLibrary[i + 1].minCount..SeedLibrary[i + 1].maxCount
    ELSE {0}

SeedInit ==
    /\ seedN \in 1..SeedN
    /\ seedData = [c \in Cells(seedN) |-> 0]
    /\ seedI = 1
    /\ seedTodo \in SeedLibrary[1].minCount..SeedLibrary[1].maxCount
    /\ seedStamps = {}
    /\ LifecycleIdle /\ LifeIdle /\ AntIdle /\ RleIdle /\ XfIdle /\ DrawIdle /\ SimIdle /\ OffIdle /\ SpawnIdle

\* A seedLifeBoard that goes on with the pattern's next placement after a
\* placePattern that returned false.
PlacePatternGoesOn ==
    /\ seedI \in 1..Len(SeedLibrary)
    /\ \E a \in Attempts(seedN, SeedLibrary[seedI]) :
       \E count \in NextCounts(seedI) :
           LET ok == canStamp(seedData, seedN, a.cells, a.offsetX, a.offsetY)
               at == stampedAt(a.cells, a.offsetX, a.offsetY)
               more == seedTodo > 1
           IN  /\ seedData' =
                      IF ok
                      THEN stampPattern(seedData, seedN, a.cells, a.offsetX, a.offsetY)
                      ELSE seedData
               /\ seedStamps' =
                      IF ok
                      THEN seedStamps \cup
                           {[cells |-> at,
                             vacant |-> \A c \in at :
                                           c \in Cells(seedN) /\ seedData[c] = 0]}
                      ELSE seedStamps
               /\ seedI' = IF more THEN seedI ELSE seedI + 1
               /\ seedTodo' = IF more THEN seedTodo - 1 ELSE count
    /\ UNCHANGED <<seedN, lifecycleVars, lifeVars, antVars, rleVars, xfVars, drawVars, simVars, offVars, spawnVars>>

\* One placePattern(pattern, padding) call of seedLifeBoard.  It stamps at the
\* first attempt that canStamp accepts; it returns false, and seedLifeBoard
\* leaves the pattern, when its attempts were all rejected.
PlacePattern ==
    /\ seedI \in 1..Len(SeedLibrary)
    /\ \E a \in Attempts(seedN, SeedLibrary[seedI]) :
       \E count \in NextCounts(seedI) :
           LET ok == canStamp(seedData, seedN, a.cells, a.offsetX, a.offsetY)
               at == stampedAt(a.cells, a.offsetX, a.offsetY)
               more == ok /\ seedTodo > 1
           IN  /\ seedData' =
                      IF ok
                      THEN stampPattern(seedData, seedN, a.cells, a.offsetX, a.offsetY)
                      ELSE seedData
               /\ seedStamps' =
                      IF ok
                      THEN seedStamps \cup
                           {[cells |-> at,
                             vacant |-> \A c \in at :
                                           c \in Cells(seedN) /\ seedData[c] = 0]}
                      ELSE seedStamps
               /\ seedI' = IF more THEN seedI ELSE seedI + 1
               /\ seedTodo' = IF more THEN seedTodo - 1 ELSE count
    /\ UNCHANGED <<seedN, lifecycleVars, lifeVars, antVars, rleVars, xfVars, drawVars, simVars, offVars, spawnVars>>

SeedSpec == SeedInit /\ [][PlacePattern]_vars

\* C22: every cell a placement stamps was vacant and inside the grid just
\* before that placement stamped, so no two stamped placements share a cell.
C22_StampsOnlyVacantCells ==
    /\ \A p \in seedStamps : p.vacant
    /\ \A p, q \in seedStamps : p # q => p.cells \cap q.cells = {}
    /\ \A p \in seedStamps : \A c \in p.cells : seedData[c] = ByteMax

\* Two placements have been stamped side by side, and seeding has reached
\* the R-pentomino after the glider's attempts were rejected.
C22_Witness ==
    /\ Cardinality(seedStamps) >= 2
    /\ seedI = Len(SeedLibrary)
    /\ \E p \in seedStamps : Cardinality(p.cells) = 5
    /\ \E c \in Cells(seedN) : seedData[c] = 0

\* A step in which placePattern returned false: nothing was stamped.
PlacementFailed == seedI \in 1..Len(SeedLibrary) /\ seedData' = seedData

\* C34 as stated: a placement whose attempts were all rejected is the only
\* one skipped; the pattern's remaining placements are still attempted.
C34_OnlyThatPlacementSkipped ==
    [][PlacementFailed /\ seedTodo > 1
          => seedI' = seedI /\ seedTodo' = seedTodo - 1]_vars

\* C34: a placement whose attempts were all rejected ends the placements of
\* its pattern, the remaining ones included; the placer goes on to the
\* following pattern with a placement count drawn from its range.
C34_FailureEndsThePattern ==
    [][PlacementFailed
          => /\ seedI' = seedI + 1
             /\ seedTodo' \in NextCounts(seedI)]_vars

\* On a buffer of side 4 the placer has reached the glider gun with fewer
\* gliders stamped than the smallest count drawn for them: a glider
\* placement failed and the ones after it were not attempted.
C34_Witness ==
    /\ seedN = 4
    /\ seedI = 2
    /\ Cardinality(seedStamps) \in 1..(SeedLibrary[1].minCount - 1)
    /\ seedTodo \in NextCounts(1)

\* ------------------------------------------------------- chooseOffset
\* Largest side of the grid in a chooseOffset call besides the program's.
MaxSide == 5

GRID_SIZE == 200

\* The arguments of chooseOffset(n, oriented.width, padding) and
\* chooseOffset(n, oriented.height, padding): grids of side up to MaxSide
\* with extents up to one more and paddings up to MaxSide, and the calls
\* placePattern makes for the library on the program's grid.
OffInputs ==
    {<<size, patternSize, padding>> :
         size \in 1..MaxSide, patternSize \in 1..(MaxSide + 1), padding \in 0..MaxSide}
    \cup
    UNION {{<<GRID_SIZE, SeedLibrary[i].pattern.width, SeedLibrary[i].padding>>,
            <<GRID_SIZE, SeedLibrary[i].pattern.height, SeedLibrary[i].padding>>} :
           i \in 1..Len(SeedLibrary)}

OffInit ==
    /\ offCalls = <<>>
    /\ LifecycleIdle /\ LifeIdle /\ AntIdle /\ RleIdle /\ XfIdle /\ SeedIdle /\ DrawIdle /\ SimIdle /\ SpawnIdle

\* One call chooseOffset(size, patternSize, padding).
ChooseOffset(size, patternSize, padding) ==
    /\ \E offset \in chooseOffset(size, patternSize, padding) :
           offCalls' = <<[size |-> size, patternSize |-> patternSize,
                          padding |-> padding, offset |-> offset]>>
    /\ UNCHANGED <<lifecycleVars, lifeVars, antVars, rleVars, xfVars, seedVars, drawVars, simVars, spawnVars>>

OffNext == \E i \in OffInputs : ChooseOffset(i[1], i[2], i[3])

OffSpec == OffInit /\ [][OffNext]_vars

\* C35: with span = gridSize - extent, chooseOffset returns 0 when
\* span <= 0, a value of [padding, span - padding] when span > 0 and
\* padding <= span - padding, and a value of [0, span] otherwise; so a
\* pattern no larger than the grid lies inside the grid at the offset.
C35_OffsetInRange ==
    \A i \in 1..Len(offCalls) :
        LET c == offCalls[i]
            span == c.size - c.patternSize
        IN  /\ span <= 0 => c.offset = 0
            /\ span > 0 /\ c.padding <= span - c.padding
                   => c.padding <= c.offset /\ c.offset <= span - c.padding
            /\ span > 0 /\ c.padding > span - c.padding
                   => 0 <= c.offset /\ c.offset <= span
            /\ c.patternSize <= c.size
                   => 0 <= c.offset /\ c.offset + c.patternSize <= c.size

\* The glider gun's width on the program's grid: the offset is the largest
\* that leaves the padding free.
C35_Witness ==
    /\ offCalls # <<>>
    /\ offCalls[1].size = GRID_SIZE
    /\ offCalls[1].patternSize = 36
    /\ offCalls[1].padding = 10
    /\ offCalls[1].offset = 154

\* ================================================================ draw
\* Largest width and height of the canvas, in pixels.
MaxCanvas == 7

\* A draw pass with s = min(...), the largest cell for which the whole grid
\* is visible.
drawMainContain(canvas, n, frag) ==
    LET gridPx == IF canvas[1] < canvas[2] THEN canvas[1] ELSE canvas[2]
        p2 == [k \in 1..2 |-> 2 * frag[k] + 1 - (canvas[k] - gridPx)]
    IN  [bar |-> \E k \in 1..2 : p2[k] < 0 \/ p2[k] >= 2 * gridPx,
         cell |-> [k \in 1..2 |-> (p2[k] * n) \div (2 * gridPx)]]

\* main() of drawfs at the pixel frag, whose gl_FragCoord is frag + 0.5, in
\* exact arithmetic.  s = max(width / n, height / n), so gridPx = n * s is
\* the larger side; p2 is twice p = gl_FragCoord.xy - 0.5 * (canvas - gridPx),
\* and floor(p / s) = floor(p2 * n / (2 * gridPx)).
drawMain(canvas, n, frag) ==
    LET gridPx == IF canvas[1] > canvas[2] THEN canvas[1] ELSE canvas[2]
        p2 == [k \in 1..2 |-> 2 * frag[k] + 1 - (canvas[k] - gridPx)]
    IN  [bar |-> \E k \in 1..2 : p2[k] < 0 \/ p2[k] >= 2 * gridPx,
         cell |-> [k \in 1..2 |-> (p2[k] * n) \div (2 * gridPx)]]

DrawInit ==
    /\ drawN \in 1..LifeN
    /\ drawCanvas = <<>>
    /\ drawImage = <<>>
    /\ LifecycleIdle /\ LifeIdle /\ AntIdle /\ RleIdle /\ XfIdle /\ SeedIdle /\ SimIdle /\ OffIdle /\ SpawnIdle

\* The draw pass of step(t, width, height, colors) on the canvas as
\* resizeCanvasToDisplaySize left it.
Draw(width, height) ==
    /\ drawCanvas' = <<width, height>>
    /\ drawImage' = [frag \in (0..width - 1) \X (0..height - 1) |->
                        drawMain(<<width, height>>, drawN, frag)]
    /\ UNCHANGED <<drawN, lifecycleVars, lifeVars, antVars, rleVars, xfVars, seedVars, simVars, offVars, spawnVars>>

DrawSpec ==
    DrawInit /\ [][\E width, height \in 1..MaxCanvas : Draw(width, height)]_vars

\* C23: for every canvas of positive width and height the grid covers the
\* canvas: every pixel maps to a cell with both indices in 0..n-1, and no
\* pixel is painted as a bar.
C23_GridCoversCanvas ==
    \A frag \in DOMAIN drawImage :
        /\ ~drawImage[frag].bar
        /\ drawImage[frag].cell[1] \in 0..(drawN - 1)
        /\ drawImage[frag].cell[2] \in 0..(drawN - 1)

\* A canvas wider than high has been drawn: its left and right columns show
\* the first and the last column of the grid, its rows only middle rows.
C23_Witness ==
    /\ drawN = 3
    /\ drawCanvas = <<6, 2>>
    /\ drawImage[<<0, 0>>].cell[1] = 0
    /\ drawImage[<<5, 0>>].cell[1] = 2
    /\ \A frag \in DOMAIN drawImage : drawImage[frag].cell[2] = 1

\* ------------------------------------------------------------ spawnAnts
\* Largest side of the seed buffer agents are spawned in.
SpawnN == 4

\* randomInt(0, 3)
SpawnDirs == 0..(Facings - 1)

\* The region of the grid a canvas of width x height shows, two cells wider
\* on each side.  scale * n is the larger of width and height.
getVisibleGridBounds(n, width, height) ==
    LET gridPx == IF width > height THEN width ELSE height
        low(px) == ((gridPx - px) * n) \div (2 * gridPx)
        high(px) == (((px + gridPx) * n + 2 * gridPx - 1) \div (2 * gridPx)) - 1
        atMost(a, b) == IF a < b THEN a ELSE b
        atLeast(a, b) == IF a > b THEN a ELSE b
        minX == atLeast(0, low(width))
        maxX == atMost(n - 1, high(width))
        minY == atLeast(0, low(height))
        maxY == atMost(n - 1, high(height))
    IN  IF maxX < minX \/ maxY < minY
        THEN [minX |-> 0, maxX |-> n - 1, minY |-> 0, maxY |-> n - 1]
        ELSE [minX |-> atLeast(0, minX - 2), maxX |-> atMost(n - 1, maxX + 2),
              minY |-> atLeast(0, minY - 2), maxY |-> atMost(n - 1, maxY + 2)]

\* The cells randomInt(minX, maxX), randomInt(minY, maxY) and the scan visit.
Region(bounds) ==
    {<<x, y>> : x \in bounds.minX..bounds.maxX, y \in bounds.minY..bounds.maxY}

\* clearRgb on every cell of the buffer within radius of (x, y).
clearAround(data, n, x, y, radius) ==
    [c \in Cells(n) |->
        IF /\ c[1] - x \in (-radius)..radius
           /\ c[2] - y \in (-radius)..radius
        THEN [r |-> 0, g |-> 0, b |-> 0]
        ELSE data[c]]

\* Math.round((((dir % 4) + 4) % 4) * 255 / 4)
spawnByte(dir) == (2 * (dir % Facings) * ByteMax + Facings) \div (2 * Facings)

spawnAnt(data, n, x, y, dir) ==
    IF ~inBounds(n, x, y) THEN data
    ELSE [data EXCEPT ![<<x, y>>] = [r |-> 0, g |-> ByteMax, b |-> spawnByte(dir)]]

\* The seed buffer after drawTracks, with a band along the first row, the
\* visible region of a canvas, and the drawn number of agents.
SpawnInit ==
    /\ spawnN \in 1..SpawnN
    /\ spawnData = [c \in Cells(spawnN) |->
                       [r |-> IF c[2] = 0 THEN ByteMax ELSE 0, g |-> 0, b |-> 0]]
    /\ \E width \in 1..MaxCanvas : \E height \in 1..MaxCanvas :
           spawnBounds = getVisibleGridBounds(spawnN, width, height)
    /\ spawnCount \in 2..4
    /\ spawnI = 0
    /\ spawnUsed = {}
    /\ LifecycleIdle /\ LifeIdle /\ AntIdle /\ RleIdle /\ XfIdle /\ SeedIdle /\ DrawIdle /\ SimIdle /\ OffIdle

\* One round of the loop over i in spawnAnts.  The random attempts, or the
\* scan after them, end at a cell of the region that is not in used; the
\* round places nothing when the region has no such cell.
SpawnAnt ==
    /\ spawnI < spawnCount
    /\ spawnI' = spawnI + 1
    /\ LET free == Region(spawnBounds) \ spawnUsed
       IN  IF free = {}
           THEN UNCHANGED <<spawnData, spawnUsed>>
           ELSE \E c \in free : \E dir \in SpawnDirs :
                    /\ spawnData' =
                           spawnAnt(clearAround(spawnData, spawnN, c[1], c[2], 2),
                                    spawnN, c[1], c[2], dir)
                    /\ spawnUsed' = spawnUsed \cup {c}
    /\ UNCHANGED <<spawnN, spawnBounds, spawnCount>>
    /\ UNCHANGED <<lifecycleVars, lifeVars, antVars, rleVars, xfVars, seedVars, drawVars, simVars, offVars>>

SpawnSpec == SpawnInit /\ [][SpawnAnt]_vars

\* The cells of the seed buffer that hold an agent.
Spawned == {c \in Cells(spawnN) : spawnData[c].g = ByteMax}

\* C36: when spawning has finished in a region of at least antCount cells,
\* the seed buffer holds exactly antCount agents, at cells of the visible
\* region: no agent spawned earlier was removed by a later spawn.
C36_EveryAgentSurvivesSpawning ==
    spawnN > 0 /\ spawnI = spawnCount /\ Cardinality(Region(spawnBounds)) >= spawnCount
        => /\ Cardinality(Spawned) = spawnCount
           /\ Spawned \subseteq Region(spawnBounds)

\* ===================================================== simulation steps
\* Largest number of step() calls made on one simulator.
MaxFrames == 4

\* if (t - lastStep > 250)
lifeStepMs == 250
\* const stepMs = 30;
stepMs == 30
\* iterations < 64
maxIterations == 64
\* runLifeWarmup(randomInt(60, 120))
warmupMin == 60
warmupMax == 120

\* Times between two animation frames, in ms: a frame of a 60 Hz display,
\* gaps around the two step durations, and a tab that was in the background.
FrameGaps == {7, 16, stepMs, lifeStepMs, lifeStepMs + 1, 2000}

\* The two surfaces initPingPongTargets creates.
Surfaces == {1, 2}

\* A pass that renders into fboB from fboA and leaves the names as they are.
simPassWithoutSwap(s, last) ==
    [s EXCEPT !.lastStep = last,
              !.latest = s.fboB,
              !.passes = Append(@, [read |-> s.fboA, write |-> s.fboB,
                                    from |-> s.lastStep, to |-> last])]

\* One simulation pass: bind fboB's framebuffer, draw with u_texture =
\* fboA's texture, swap fboA and fboB, and set lastStep to `last`.
simPass(s, last) ==
    [s EXCEPT !.fboA = s.fboB,
              !.fboB = s.fboA,
              !.lastStep = last,
              !.latest = s.fboB,
              !.passes = Append(@, [read |-> s.fboA, write |-> s.fboB,
                                    from |-> s.lastStep, to |-> last])]

\* The draw pass: u_texture = fboA's texture.
drawPass(s) == [s EXCEPT !.drawn = s.fboA]

\* A Life step that advances when 250 ms have elapsed.
stepLifeAtStepMs(s, t) ==
    LET s1 == IF s.lastStep = 0 THEN [s EXCEPT !.lastStep = t] ELSE s
        s2 == IF t - s1.lastStep >= lifeStepMs THEN simPass(s1, t) ELSE s1
    IN  drawPass(s2)

\* step(t, ...) of the Life simulator.
stepLife(s, t) ==
    LET s1 == IF s.lastStep = 0 THEN [s EXCEPT !.lastStep = t] ELSE s
        s2 == IF t - s1.lastStep > lifeStepMs THEN simPass(s1, t) ELSE s1
    IN  drawPass(s2)

\* A loop that catches up without a limit.
RECURSIVE antLoopUnlimited(_, _, _)
antLoopUnlimited(s, t, iterations) ==
    IF t - s.lastStep >= stepMs
    THEN antLoopUnlimited(simPass(s, s.lastStep + stepMs), t, iterations + 1)
    ELSE s

\* A loop that, once it has reached its limit, takes the frame's time for
\* lastStep.
RECURSIVE antLoopDropsBacklog(_, _, _)
antLoopDropsBacklog(s, t, iterations) ==
    IF t - s.lastStep >= stepMs
    THEN IF iterations < maxIterations
         THEN antLoopDropsBacklog(simPass(s, s.lastStep + stepMs), t, iterations + 1)
         ELSE [s EXCEPT !.lastStep = t]
    ELSE s

\* while (t - lastStep >= stepMs && iterations < 64) { ... }
RECURSIVE antLoop(_, _, _)
antLoop(s, t, iterations) ==
    IF t - s.lastStep >= stepMs /\ iterations < maxIterations
    THEN antLoop(simPass(s, s.lastStep + stepMs), t, iterations + 1)
    ELSE s

\* step(t, ...) of the Ant simulator.
stepAnt(s, t) ==
    LET s1 == IF s.lastStep = 0 THEN [s EXCEPT !.lastStep = t - stepMs] ELSE s
    IN  drawPass(antLoop(s1, t, 0))

\* The simulator with its history, as one value.
SimState ==
    [fboA |-> simClosure.fboA, fboB |-> simClosure.fboB, lastStep |-> simClosure.lastStep,
     latest |-> simLatest, passes |-> <<>>, drawn |-> simDrawn]

SimSet(s) ==
    /\ simClosure' = [fboA |-> s.fboA, fboB |-> s.fboB, lastStep |-> s.lastStep]
    /\ simPasses' = s.passes
    /\ simLatest' = s.latest
    /\ simDrawn' = s.drawn
    /\ UNCHANGED <<simKind, simLive>>
    /\ UNCHANGED <<lifecycleVars, lifeVars, antVars, rleVars, xfVars, seedVars, drawVars, offVars, spawnVars>>

\* initPingPongTargets has uploaded the seed to fboA's texture.  The Ant
\* constructor then returns; the Life constructor runs its warm-up first.
SimInit ==
    /\ simKind \in MODES
    /\ simClosure = [fboA |-> 1, fboB |-> 2, lastStep |-> 0]
    /\ simPhase = IF simKind = "life" THEN "seeded" ELSE "built"
    /\ simWarmup \in IF simKind = "life" THEN warmupMin..warmupMax ELSE {0}
    /\ simNow = 0
    /\ simFrames = 0
    /\ simLive = Surfaces
    /\ simPasses = <<>>
    /\ simLatest = 1
    /\ simDrawn = 0
    /\ simMarks = <<>>
    /\ simFirst = 0
    /\ simTicks = 0
    /\ LifecycleIdle /\ LifeIdle /\ AntIdle /\ RleIdle /\ XfIdle /\ SeedIdle /\ DrawIdle /\ OffIdle /\ SpawnIdle

\* One iteration of the loop of runLifeWarmup(iterations).  Nothing else runs
\* before the loop has ended and the constructor has returned.
WarmupPass ==
    /\ simPhase = "seeded"
    /\ SimSet(simPass([SimState EXCEPT !.passes = simPasses], simClosure.lastStep))
    /\ simWarmup' = simWarmup - 1
    /\ simPhase' = IF simWarmup > 1 THEN "seeded" ELSE "built"
    /\ UNCHANGED <<simNow, simFrames, simMarks, simFirst, simTicks>>

\* render(time) calls sim.step(time, ...), `gap` ms after the last frame.
Step(gap) ==
    LET t == simNow + gap
        s == IF simKind = "life" THEN stepLife(SimState, t) ELSE stepAnt(SimState, t)
    IN  /\ simPhase \in {"built", "stepped"}
        /\ simFrames < MaxFrames
        /\ SimSet(s)
        /\ simPhase' = "stepped"
        /\ simNow' = t
        /\ simFrames' = simFrames + 1
        /\ UNCHANGED simWarmup
        /\ simMarks' = IF simPhase = "built" \/ s.passes # <<>>
                       THEN LastTwo(Append(simMarks, t))
                       ELSE simMarks
        /\ simFirst' = IF simPhase = "built" THEN t ELSE simFirst
        /\ simTicks' = simTicks + Len(s.passes)

\* dispose(): disposeResources with framebuffers: [fboA, fboB], where the
\* release call `th` throws.
SimDispose(th) ==
    LET left == AllResources \ disposeResources(AllResources, th)
    IN  /\ simPhase \in {"built", "stepped"}
        /\ simPhase' = "disposed"
        /\ simLive' = {x \in Surfaces :
                          \/ x = simClosure.fboA /\ ~({"texA", "fbA"} \subseteq left)
                          \/ x = simClosure.fboB /\ ~({"texB", "fbB"} \subseteq left)}
        /\ UNCHANGED <<simKind, simClosure, simWarmup, simNow, simFrames, simPasses,
                       simLatest, simDrawn, simMarks, simFirst, simTicks>>
        /\ UNCHANGED <<lifecycleVars, lifeVars, antVars, rleVars, xfVars, seedVars, drawVars, offVars, spawnVars>>

SimNext ==
    \/ WarmupPass
    \/ \E gap \in FrameGaps : Step(gap)
    \/ \E th \in ThrowPoints : SimDispose(th)

SimSpec == SimInit /\ [][SimNext]_vars

\* The two names fboA and fboB always hold the two surfaces, every pass
\* writes the surface it does not read and the next pass reads the surface
\* the last one wrote, and fboA, which the draw pass and the next pass read,
\* is the surface written last.
PingPong ==
    /\ {simClosure.fboA, simClosure.fboB} = Surfaces
    /\ simClosure.fboA = simLatest
    /\ \A i \in 1..Len(simPasses) : simPasses[i].read # simPasses[i].write
    /\ \A i \in 1..(Len(simPasses) - 1) : simPasses[i + 1].read = simPasses[i].write
    /\ simFrames > 0 => simDrawn = simLatest

\* C24: in every simulation pass (Life warm-up iteration, Life step, Ant
\* tick) the surface written is not the surface read, the roles are swapped
\* after it, so that the draw pass and the next pass read the surface written
\* last; exactly one surface is the current one, and dispose releases both.
C24_PingPongAndBothReleased ==
    /\ PingPong
    /\ simPhase = "disposed" => simLive = {}

C26_AntTicksBounded ==
    (simKind = "ant" /\ simFrames > 0) =>
        /\ Len(simPasses) <= maxIterations
        /\ \A i \in 1..Len(simPasses) : simPasses[i].to = simPasses[i].from + stepMs
        /\ Len(simPasses) < maxIterations => simNow - simClosure.lastStep <= stepMs

\* A call two seconds after the last one has run into the limit of 64 ticks
\* with more than a tick's time still to catch up.
C26_Witness ==
    /\ simKind = "ant"
    /\ Len(simPasses) = maxIterations
    /\ simPasses[maxIterations].to = simClosure.lastStep
    /\ simNow - simClosure.lastStep > stepMs

\* C39: the Ant simulator discards no owed tick.  The first step call runs
\* exactly one tick; every tick moves lastStep on by 30 ms from the first
\* frame's time and nothing else moves it, so a call that stopped at 64
\* ticks leaves its backlog to the following calls; a call runs fewer than
\* 64 ticks only when it ends with less than 30 ms elapsed since the last
\* tick; and the ticks run up to time t are at most floor((t - t0) / 30) + 1
\* for the first frame's time t0.
C39_AntKeepsOwedTicks ==
    simKind = "ant" /\ simFrames > 0 =>
        /\ simFrames = 1 => Len(simPasses) = 1 /\ simTicks = 1
        /\ simClosure.lastStep = simFirst + stepMs * (simTicks - 1)
        /\ Len(simPasses) <= maxIterations
        /\ Len(simPasses) < maxIterations => simNow - simClosure.lastStep < stepMs
        /\ simTicks <= ((simNow - simFirst) \div stepMs) + 1

\* After a call that stopped at 64 ticks with two ticks still owed, the next
\* frame, 7 ms later, has run those two.
C39_Witness ==
    /\ simKind = "ant"
    /\ simFrames = 3
    /\ simTicks = maxIterations + 3
    /\ Len(simPasses) = 2
    /\ simNow - simFirst = 2007
    /\ simNow - simClosure.lastStep < stepMs

\* C40: the facing encoding round-trips.  For every facing d of 0..3 the
\* byte spawnAnt writes, round(d * 255 / 4), and the byte an 8-bit channel
\* holds for the shader's d / 4, whichever way a tie is rounded, decode to d;
\* every agent's stored byte is an encoding of the facing it is read as; and
\* after a step an agent's facing is read back as the facing that an agent
\* moving onto its cell was given.
C40_FacingRoundTrips ==
    /\ \A d \in 0..(Facings - 1) :
           /\ decodeDir(spawnByte(d)) = d
           /\ \A tie \in {0, 1} : decodeDir(encodeDir(d, tie)) = d
    /\ antN > 0 =>
           \A c \in Agents(antGrid, antN) :
               LET b == antGrid[c].b
               IN  b \in {spawnByte(decodeDir(b)), encodeDir(decodeDir(b), 0),
                          encodeDir(decodeDir(b), 1)}
    /\ antHist # <<>> =>
           \A c \in Agents(antGrid, antN) :
               facingOf(antGrid, c) \in
                   {facingAfterTurn(antBefore, e) : e \in movers(antBefore, c, antN)}

\* An agent spawned with facing 1 on a light cell has turned right: the
\* step stored 2 / 4 as the byte 127, below the half-way value 127.5, and it
\* is read back as facing 2.
C40_Witness ==
    /\ antHist # <<>>
    /\ \E e \in Agents(antBefore, antN) :
           /\ antBefore[e].b = spawnByte(1)
           /\ isLight(antBefore, e)
           /\ LET c == destination(antBefore, e, antN)
              IN  /\ hasAgent(antGrid, c)
                  /\ antGrid[c].b = 127
                  /\ facingOf(antGrid, c) = 2

====
